---- MODULE Spec2Model ----
(***************************************************************************)
(* A model of gator (Blog-AggreGATOR): the command handlers of main.go,    *)
(* the preferences file of internal/config, the polling loop of `agg` and  *)
(* the relational store the handlers talk to.                              *)
(*                                                                         *)
(* Every command other than `agg` is one short-lived process: main reads   *)
(* the preferences file, runs one handler and exits, so a command is one   *)
(* action.  `agg` is a long-lived process whose cycle (scrapeFeeds) is     *)
(* split at its store and network calls, because other processes run      *)
(* between them.                                                           *)
(*                                                                         *)
(* The store and the preferences file are assumed to answer: connection    *)
(* failures and file-system failures are not modelled.  Only the columns   *)
(* the handlers read are kept (created_at / updated_at are dropped, and    *)
(* the ids of posts, which nothing reads back).                            *)
(***************************************************************************)
EXTENDS Integers, Sequences, FiniteSets, TLC

VARIABLES
    users,            \* table users: records [id, name]
    feeds,            \* table feeds: records [id, name, url, user_id, last_fetched_at]
    follows,          \* table feed_follows: records [id, user_id, feed_id]
    posts,            \* table posts: records [title, url, description, published_at, feed_id]
    CurrentUserName,  \* ~/.gatorconfig.json: current_user_name
    nextId,           \* the ids uuid.New() has handed to stored rows so far
    now,              \* the store's clock (NOW()), as of the last timestamp written
    res,              \* what the last step did: the command, its error, its output
    pc,               \* per agg process: where it is in handlerAgg / scrapeFeeds
    feed,             \* per agg process: the row GetNextFeedToFetch returned
    rss,              \* per agg process: the document fetchFeed returned
    idx,              \* per agg process: the item of rss the ingest loop is at
    selLog,           \* history: the feed ids selected by the cycles, in order
    cyc,              \* history: the cycle under way, the posts it started from
                      \* and the inserts it has tried
    handlers,         \* commands.handlers: the handler registered under each name
    regs,             \* history: the calls of commands.register made, in order
    held              \* history: the follows stored before the last follow ran

db   == <<users, feeds, follows, posts>>
agg  == <<pc, feed, rss, idx>>
vars == <<users, feeds, follows, posts, CurrentUserName, nextId, now, res,
          pc, feed, rss, idx, selLog, cyc, handlers, regs, held>>
hist == <<selLog, cyc, regs, held>>

----------------------------------------------------------------------------
(* Bounds of the model. *)

MaxId == 4          \* ids uuid.New() may hand out
MaxClock == 3       \* timestamps MarkFeedFetched may write
MaxItems == 3       \* items of one fetched document
MaxLog == 4         \* cycles recorded in selLog
MaxFeeds == 3       \* feeds of the store the scheduler is run on
MaxRegs == 2        \* calls of register before a command is run

(* Inputs. *)

Names    == {"alice", "bob"}
Urls     == {"u1", "u2"}
FeedNames == {"blog"}
Procs    == {1, 2}

----------------------------------------------------------------------------
(* Values. *)

NULL == 0     \* a NULL last_fetched_at; real timestamps are 1, 2, ...

Nil == <<"nil">>
ErrNoRows            == <<"sql: no rows in result set">>
ErrUnique            == <<"pq", "23505">>
ErrForeignKey        == <<"pq", "23503">>

NoCmd == [name |-> "", args |-> <<>>]
NoRes == [cmd |-> NoCmd, err |-> Nil, lookup |-> FALSE, body |-> FALSE, out |-> <<>>]

(* The result of one command [name, args]: `lookup` says whether the handler asked the  *)
(* store for the current user, `body` whether the part of the handler      *)
(* after the user was resolved ran, `out` what it printed.                 *)
Result(cmd, err, lookup, body, out) ==
    [cmd |-> cmd, err |-> err, lookup |-> lookup, body |-> body, out |-> out]

----------------------------------------------------------------------------

(* Mutant of NewUUID: the id handed out last, once more. *)
NewUUID_Repeats == nextId

(* uuid.New(): an id that no row stored before carries.  The counter moves *)
(* when the id is stored, so that an insert the store refuses does not use *)
(* one up.                                                                 *)
NewUUID == nextId + 1

(* uuid.New() for a follow.  Nothing reads the id of a follow back: the    *)
(* table is a multiset of (user_id, feed_id), and the id tells the rows of *)
(* one pair apart, as the first number no stored row of the pair carries.  *)
NewFollowUUID(user_id, feed_id) ==
    LET ids == {ff.id : ff \in {x \in follows :
                                   x.user_id = user_id /\ x.feed_id = feed_id}}
    IN  CHOOSE m \in 1..(Cardinality(ids) + 1) :
            m \notin ids /\ \A i \in 1..(m - 1) : i \in ids

----------------------------------------------------------------------------
(* The store (internal/database, generated from sql/queries).  A query is  *)
(* an operator over the tables; an insert gives the error and the table    *)
(* after it.                                                               *)

GetUser(name) ==
    IF \E u \in users : u.name = name
    THEN [err |-> Nil, row |-> CHOOSE u \in users : u.name = name]
    ELSE [err |-> ErrNoRows, row |-> [id |-> 0, name |-> ""]]

(* INSERT INTO users: names are unique. *)
CreateUser(id, name) ==
    IF \E u \in users : u.name = name
    THEN [err |-> ErrUnique, users |-> users]
    ELSE [err |-> Nil, users |-> users \cup {[id |-> id, name |-> name]}]

GetUsers == users

GetFeedByURL(url) ==
    IF \E f \in feeds : f.url = url
    THEN [err |-> Nil, row |-> CHOOSE f \in feeds : f.url = url]
    ELSE [err |-> ErrNoRows,
          row |-> [id |-> 0, name |-> "", url |-> "", user_id |-> 0,
                   last_fetched_at |-> NULL]]

(* INSERT INTO feeds: urls are unique, user_id references users.  A new    *)
(* feed was never fetched.                                                 *)
CreateFeed(id, name, url, user_id) ==
    LET row == [id |-> id, name |-> name, url |-> url, user_id |-> user_id,
                last_fetched_at |-> NULL]
    IN  IF \E f \in feeds : f.url = url
        THEN [err |-> ErrUnique, row |-> row, feeds |-> feeds]
        ELSE IF ~ \E u \in users : u.id = user_id
        THEN [err |-> ErrForeignKey, row |-> row, feeds |-> feeds]
        ELSE [err |-> Nil, row |-> row, feeds |-> feeds \cup {row}]

(* GetFeeds joins each feed with the user that added it. *)
GetFeeds ==
    {[name |-> f.name, url |-> f.url,
      user_name |-> (CHOOSE u \in users : u.id = f.user_id).name] : f \in feeds}

(* CreateFeedFollow: the insert, then the join with users and feeds for    *)
(* the names.  (user_id, feed_id) is unique and both are references.       *)
(* us, fs, ffs are the tables the statement runs on.                       *)
CreateFeedFollowOn(us, fs, ffs, id, user_id, feed_id) ==
    LET row == [id |-> id, user_id |-> user_id, feed_id |-> feed_id]
    IN  IF \E ff \in ffs : ff.user_id = user_id /\ ff.feed_id = feed_id
        THEN [err |-> ErrUnique, follows |-> ffs, user_name |-> "", feed_name |-> ""]
        ELSE IF ~ (\E u \in us : u.id = user_id) \/ ~ (\E f \in fs : f.id = feed_id)
        THEN [err |-> ErrForeignKey, follows |-> ffs, user_name |-> "", feed_name |-> ""]
        ELSE [err |-> Nil, follows |-> ffs \cup {row},
              user_name |-> (CHOOSE u \in us : u.id = user_id).name,
              feed_name |-> (CHOOSE f \in fs : f.id = feed_id).name]

CreateFeedFollow(id, user_id, feed_id) ==
    CreateFeedFollowOn(users, feeds, follows, id, user_id, feed_id)

(* GetFeedFollowsForUser: the follows of one user, joined with the names. *)
GetFeedFollowsForUser(user_id) ==
    {[id |-> ff.id, user_id |-> ff.user_id, feed_id |-> ff.feed_id,
      user_name |-> (CHOOSE u \in users : u.id = ff.user_id).name,
      feed_name |-> (CHOOSE f \in feeds : f.id = ff.feed_id).name]
        : ff \in {x \in follows : x.user_id = user_id}}

(* DELETE FROM feed_follows WHERE user_id = $1 AND feed_id = $2 *)
DeleteFeedFollow(user_id, feed_id) ==
    {ff \in follows : ~ (ff.user_id = user_id /\ ff.feed_id = feed_id)}

(* GetNextFeedToFetch: ORDER BY last_fetched_at ASC NULLS FIRST LIMIT 1.   *)
(* The rows the query may return: every row that no other row precedes     *)
(* (which of several such rows comes first is the store's choice).         *)
GetNextFeedToFetch ==
    {f \in feeds : \A g \in feeds : f.last_fetched_at <= g.last_fetched_at}

(* MarkFeedFetched: UPDATE feeds SET last_fetched_at = NOW() WHERE id = $1 *)
MarkFeedFetched(id, t) ==
    {IF f.id = id THEN [f EXCEPT !.last_fetched_at = t] ELSE f : f \in feeds}

(* INSERT INTO posts: urls are unique, feed_id references feeds. *)
CreatePost(title, url, description, published_at, feed_id) ==
    IF \E p \in posts : p.url = url
    THEN [err |-> ErrUnique, posts |-> posts]
    ELSE IF ~ \E f \in feeds : f.id = feed_id
    THEN [err |-> ErrForeignKey, posts |-> posts]
    ELSE [err |-> Nil,
          posts |-> posts \cup {[title |-> title, url |-> url,
                                 description |-> description,
                                 published_at |-> published_at,
                                 feed_id |-> feed_id]}]

(* DELETE FROM users; feeds, follows and posts go with the rows they       *)
(* reference (ON DELETE CASCADE).                                          *)
ResetUsers ==
    [users |-> {}, feeds |-> {}, follows |-> {}, posts |-> {}]

----------------------------------------------------------------------------
(* internal/config *)

(* Config.SetUser: sets the name and writes the file back. *)
SetUser(username) == CurrentUserName' = username

----------------------------------------------------------------------------
(* The handlers of main.go.  A handler gets cmd = [name, args]; it sets    *)
(* the tables, the preferences, the two counters and res.                  *)

(* A return with an error before anything was written. *)
Fail(cmd, err, lookup, body) ==
    /\ res' = Result(cmd, err, lookup, body, <<>>)
    /\ UNCHANGED <<users, feeds, follows, posts, CurrentUserName, nextId, now>>

(* A return that wrote nothing. *)
Done(cmd, lookup, body, out) ==
    /\ res' = Result(cmd, Nil, lookup, body, out)
    /\ UNCHANGED <<users, feeds, follows, posts, CurrentUserName, nextId, now>>

(* middlewareLoggedIn, up to the call of the handler it wraps: the error   *)
(* it returns, or the user it hands to the handler.                        *)
middlewareLoggedIn ==
    LET currentUser == CurrentUserName
        none == [id |-> 0, name |-> ""]
    IN  IF currentUser = ""
        THEN [err |-> <<"no current user set (run login first)">>, lookup |-> FALSE,
              user |-> none]
        ELSE LET r == GetUser(currentUser)
             IN  IF r.err # Nil
                 THEN IF r.err = ErrNoRows
                      THEN [err |-> <<"user %s does not exist", currentUser>>,
                            lookup |-> TRUE, user |-> none]
                      ELSE [err |-> r.err, lookup |-> TRUE, user |-> none]
                 ELSE [err |-> Nil, lookup |-> TRUE, user |-> r.row]

(* Mutant of handlerRegister: the name is made current before the insert,  *)
(* so a refused insert leaves it current.                                  *)
handlerRegister_SetUserFirst(cmd) ==
    IF Len(cmd.args) < 1
    THEN Fail(cmd, <<"register requires a username">>, FALSE, FALSE)
    ELSE LET name == cmd.args[1]
             r == CreateUser(NewUUID, name)
         IN  IF r.err # Nil
             THEN /\ SetUser(name)
                  /\ res' = Result(cmd, <<"user %s already exists", name>>, FALSE, FALSE, <<>>)
                  /\ UNCHANGED <<users, feeds, follows, posts, nextId, now>>
             ELSE /\ nextId < MaxId
                  /\ users' = r.users
                  /\ nextId' = NewUUID
                  /\ SetUser(name)
                  /\ res' = Result(cmd, Nil, FALSE, FALSE, <<"user %s created", name>>)
                  /\ UNCHANGED <<feeds, follows, posts, now>>


handlerRegister(cmd) ==
    IF Len(cmd.args) < 1
    THEN Fail(cmd, <<"register requires a username">>, FALSE, FALSE)
    ELSE LET name == cmd.args[1]
             r == CreateUser(NewUUID, name)
         IN  IF r.err # Nil
             THEN IF r.err = ErrUnique
                  THEN Fail(cmd, <<"user %s already exists", name>>, FALSE, FALSE)
                  ELSE Fail(cmd, r.err, FALSE, FALSE)
             ELSE /\ nextId < MaxId
                  /\ users' = r.users
                  /\ nextId' = NewUUID
                  /\ SetUser(name)
                  /\ res' = Result(cmd, Nil, FALSE, FALSE, <<"user %s created", name>>)
                  /\ UNCHANGED <<feeds, follows, posts, now>>

(* Mutant of handlerLogin: the name is made current without asking the     *)
(* store for the user.                                                     *)
handlerLogin_NoLookup(cmd) ==
    IF Len(cmd.args) < 1
    THEN Fail(cmd, <<"login requires a username">>, FALSE, FALSE)
    ELSE LET username == cmd.args[1]
         IN  /\ SetUser(username)
             /\ res' = Result(cmd, Nil, FALSE, FALSE, <<"current user set to %s", username>>)
             /\ UNCHANGED <<users, feeds, follows, posts, nextId, now>>


handlerLogin(cmd) ==
    IF Len(cmd.args) < 1
    THEN Fail(cmd, <<"login requires a username">>, FALSE, FALSE)
    ELSE LET username == cmd.args[1]
             r == GetUser(username)
         IN  IF r.err # Nil
             THEN IF r.err = ErrNoRows
                  THEN Fail(cmd, <<"user %s does not exist", username>>, TRUE, FALSE)
                  ELSE Fail(cmd, r.err, TRUE, FALSE)
             ELSE /\ SetUser(username)
                  /\ res' = Result(cmd, Nil, TRUE, FALSE,
                                   <<"current user set to %s", username>>)
                  /\ UNCHANGED <<users, feeds, follows, posts, nextId, now>>

(* Mutant of handlerReset: the users are deleted and nothing that          *)
(* references them.                                                        *)
handlerReset_UsersOnly(cmd) ==
    /\ users' = {}
    /\ res' = Result(cmd, Nil, FALSE, FALSE, <<"database reset successful">>)
    /\ UNCHANGED <<feeds, follows, posts, CurrentUserName, nextId, now>>

(* handlerReset, were the current user cleared with the users. *)
handlerReset_ClearsUser(cmd) ==
    LET r == ResetUsers
    IN  /\ users' = r.users
        /\ feeds' = r.feeds
        /\ follows' = r.follows
        /\ posts' = r.posts
        /\ SetUser("")
        /\ res' = Result(cmd, Nil, FALSE, FALSE, <<"database reset successful">>)
        /\ UNCHANGED <<nextId, now>>

handlerReset(cmd) ==
    LET r == ResetUsers
    IN  /\ users' = r.users
        /\ feeds' = r.feeds
        /\ follows' = r.follows
        /\ posts' = r.posts
        /\ res' = Result(cmd, Nil, FALSE, FALSE, <<"database reset successful">>)
        /\ UNCHANGED <<CurrentUserName, nextId, now>>

(* users: one line per user, the current one marked. *)
handlerUsers(cmd) ==
    Done(cmd, FALSE, FALSE,
         {IF u.name = CurrentUserName THEN <<u.name, "(current)">> ELSE <<u.name>>
             : u \in GetUsers})

(* Mutant of handlerAddFeed: the feed is created and nothing more. *)
handlerAddFeed_NoFollow(cmd, user) ==
    IF Len(cmd.args) < 2
    THEN Fail(cmd, <<"addfeed requires a name and url">>, TRUE, TRUE)
    ELSE LET feedName == cmd.args[1]
             feedURL == cmd.args[2]
             r == CreateFeed(NewUUID, feedName, feedURL, user.id)
         IN  IF r.err # Nil
             THEN IF r.err = ErrUnique
                  THEN Fail(cmd, <<"feed url already exists: %s", feedURL>>, TRUE, TRUE)
                  ELSE Fail(cmd, r.err, TRUE, TRUE)
             ELSE /\ nextId < MaxId
                  /\ feeds' = r.feeds
                  /\ nextId' = NewUUID
                  /\ res' = Result(cmd, Nil, TRUE, TRUE, <<"feed created:", r.row>>)
                  /\ UNCHANGED <<users, follows, posts, CurrentUserName, now>>

(* handlerAddFeed, were a URL that is stored already taken as a follow of  *)
(* the feed that carries it.                                               *)
handlerAddFeed_FollowsExisting(cmd, user) ==
    IF Len(cmd.args) < 2
    THEN Fail(cmd, <<"addfeed requires a name and url">>, TRUE, TRUE)
    ELSE LET feedName == cmd.args[1]
             feedURL == cmd.args[2]
             r == CreateFeed(NewUUID, feedName, feedURL, user.id)
             row == IF r.err = ErrUnique THEN GetFeedByURL(feedURL).row ELSE r.row
             ff == CreateFeedFollowOn(users, r.feeds, follows,
                                      NewFollowUUID(user.id, row.id),
                                      user.id, row.id)
         IN  IF r.err # Nil /\ r.err # ErrUnique
             THEN Fail(cmd, r.err, TRUE, TRUE)
             ELSE /\ r.err = Nil => nextId < MaxId
                  /\ feeds' = r.feeds
                  /\ nextId' = IF r.err = Nil THEN NewUUID ELSE nextId
                  /\ follows' = ff.follows
                  /\ res' = Result(cmd, Nil, TRUE, TRUE, <<"feed created:", row>>)
                  /\ UNCHANGED <<users, posts, CurrentUserName, now>>

handlerAddFeed(cmd, user) ==
    IF Len(cmd.args) < 2
    THEN Fail(cmd, <<"addfeed requires a name and url">>, TRUE, TRUE)
    ELSE LET feedName == cmd.args[1]
             feedURL == cmd.args[2]
             r == CreateFeed(NewUUID, feedName, feedURL, user.id)
         IN  IF r.err # Nil
             THEN IF r.err = ErrUnique
                  THEN Fail(cmd, <<"feed url already exists: %s", feedURL>>, TRUE, TRUE)
                  ELSE Fail(cmd, r.err, TRUE, TRUE)
             ELSE \* the follow is inserted after the feed is
                  LET ff == CreateFeedFollowOn(users, r.feeds, follows,
                                                 NewFollowUUID(user.id, r.row.id),
                                                 user.id, r.row.id)
                  IN  IF ff.err # Nil /\ ff.err # ErrUnique
                      THEN \* the feed stays, the follow is missing
                           /\ nextId < MaxId
                           /\ feeds' = r.feeds
                           /\ nextId' = NewUUID
                           /\ res' = Result(cmd, ff.err, TRUE, TRUE, <<>>)
                           /\ UNCHANGED <<users, follows, posts, CurrentUserName, now>>
                      ELSE /\ nextId < MaxId
                           /\ feeds' = r.feeds
                           /\ nextId' = NewUUID
                           /\ follows' = ff.follows
                           /\ res' = Result(cmd, Nil, TRUE, TRUE, <<"feed created:", r.row>>)
                           /\ UNCHANGED <<users, posts, CurrentUserName, now>>

(* Mutant of handlerFollow: a follow the store refuses as a duplicate is   *)
(* reported as done.                                                       *)
handlerFollow_IgnoresDuplicate(cmd) ==
    IF Len(cmd.args) # 1
    THEN Fail(cmd, <<"follow requires a url">>, FALSE, FALSE)
    ELSE LET feedURL == cmd.args[1]
             currentUser == CurrentUserName
         IN  IF currentUser = ""
             THEN Fail(cmd, <<"no current user set">>, FALSE, FALSE)
             ELSE LET u == GetUser(currentUser)
                  IN  IF u.err # Nil
                      THEN Fail(cmd, u.err, TRUE, FALSE)
                      ELSE LET f == GetFeedByURL(feedURL)
                           IN  IF f.err # Nil
                               THEN Fail(cmd, f.err, TRUE, TRUE)
                               ELSE LET ff == CreateFeedFollow(NewFollowUUID(u.row.id, f.row.id),
                                                              u.row.id, f.row.id)
                                    IN  IF ff.err # Nil /\ ff.err # ErrUnique
                                        THEN Fail(cmd, ff.err, TRUE, TRUE)
                                        ELSE /\ follows' = ff.follows
                                             /\ res' = Result(cmd, Nil, TRUE, TRUE,
                                                    <<"%s now follows %s", u.row.name, f.row.name>>)
                                             /\ UNCHANGED <<users, feeds, posts,
                                                            CurrentUserName, nextId, now>>

handlerFollow(cmd) ==
    IF Len(cmd.args) # 1
    THEN Fail(cmd, <<"follow requires a url">>, FALSE, FALSE)
    ELSE LET feedURL == cmd.args[1]
             currentUser == CurrentUserName
         IN  IF currentUser = ""
             THEN Fail(cmd, <<"no current user set">>, FALSE, FALSE)
             ELSE LET u == GetUser(currentUser)
                  IN  IF u.err # Nil
                      THEN Fail(cmd, u.err, TRUE, FALSE)
                      ELSE LET f == GetFeedByURL(feedURL)
                           IN  IF f.err # Nil
                               THEN Fail(cmd, f.err, TRUE, TRUE)
                               ELSE LET ff == CreateFeedFollow(NewFollowUUID(u.row.id, f.row.id),
                                                              u.row.id, f.row.id)
                                    IN  IF ff.err # Nil
                                        THEN IF ff.err = ErrUnique
                                             THEN Fail(cmd, <<"%s already follows %s",
                                                              u.row.name, f.row.name>>, TRUE, TRUE)
                                             ELSE Fail(cmd, ff.err, TRUE, TRUE)
                                        ELSE /\ follows' = ff.follows
                                             /\ res' = Result(cmd, Nil, TRUE, TRUE,
                                                    <<"%s now follows %s", ff.user_name, ff.feed_name>>)
                                             /\ UNCHANGED <<users, feeds, posts,
                                                            CurrentUserName, nextId, now>>

handlerFollowing(cmd) ==
    IF Len(cmd.args) # 0
    THEN Fail(cmd, <<"following takes no arguments">>, FALSE, FALSE)
    ELSE LET currentUser == CurrentUserName
         IN  IF currentUser = ""
             THEN Fail(cmd, <<"no current user set">>, FALSE, FALSE)
             ELSE LET u == GetUser(currentUser)
                  IN  IF u.err # Nil
                      THEN Fail(cmd, u.err, TRUE, FALSE)
                      ELSE Done(cmd, TRUE, TRUE,
                                {f.feed_name : f \in GetFeedFollowsForUser(u.row.id)})

(* handlerUnfollow, were the follows of the feed deleted by feed alone. *)
handlerUnfollow_EveryUser(cmd, user) ==
    IF Len(cmd.args) # 1
    THEN Fail(cmd, <<"unfollow requires a url">>, TRUE, TRUE)
    ELSE LET feedURL == cmd.args[1]
             f == GetFeedByURL(feedURL)
         IN  IF f.err # Nil
             THEN Fail(cmd, f.err, TRUE, TRUE)
             ELSE /\ follows' = {ff \in follows : ff.feed_id # f.row.id}
                  /\ res' = Result(cmd, Nil, TRUE, TRUE,
                                   <<"%s unfollowed %s", user.name, f.row.name>>)
                  /\ UNCHANGED <<users, feeds, posts, CurrentUserName, nextId, now>>

handlerUnfollow(cmd, user) ==
    IF Len(cmd.args) # 1
    THEN Fail(cmd, <<"unfollow requires a url">>, TRUE, TRUE)
    ELSE LET feedURL == cmd.args[1]
             f == GetFeedByURL(feedURL)
         IN  IF f.err # Nil
             THEN Fail(cmd, f.err, TRUE, TRUE)
             ELSE /\ follows' = DeleteFeedFollow(user.id, f.row.id)
                  /\ res' = Result(cmd, Nil, TRUE, TRUE,
                                   <<"%s unfollowed %s", user.name, f.row.name>>)
                  /\ UNCHANGED <<users, feeds, posts, CurrentUserName, nextId, now>>

handlerFeeds(cmd) ==
    IF Len(cmd.args) # 0
    THEN Fail(cmd, <<"feeds takes no arguments">>, FALSE, FALSE)
    ELSE Done(cmd, FALSE, FALSE, GetFeeds)

(* strconv.Atoi on the limits tried. *)
Atoi(str) ==
    CASE str = "1" -> [n |-> 1, err |-> Nil]
      [] str = "3" -> [n |-> 3, err |-> Nil]
      [] str = "0" -> [n |-> 0, err |-> Nil]
      [] str = "-1" -> [n |-> -1, err |-> Nil]
      [] OTHER -> [n |-> 0, err |-> <<"strconv.Atoi: invalid syntax">>]

Range(f) == {f[i] : i \in DOMAIN f}

(* GetPostsForUser: the posts of the feeds the user follows, newest        *)
(* published_at first, at most `limit` of them.  The sequences the query   *)
(* may return: posts with the same published_at come in the store's order, *)
(* and the posts without one come before all others or after all others    *)
(* (nullsAt), as the query orders them.                                    *)
PublishedKey(p, nullsAt) ==
    IF p.published_at.Valid THEN p.published_at.Time
    ELSE IF nullsAt = "last" THEN -1 ELSE 2147483647

GetPostsForUser(user_id, limit) ==
    LET mine == {p \in posts : \E ff \in follows :
                    ff.user_id = user_id /\ ff.feed_id = p.feed_id}
        n == IF Cardinality(mine) < limit THEN Cardinality(mine) ELSE limit
    IN  UNION {
          {q \in [1..n -> mine] :
            /\ \A i, j \in 1..n : i < j =>
                  /\ q[i] # q[j]
                  /\ PublishedKey(q[i], nullsAt) >= PublishedKey(q[j], nullsAt)
            /\ \A p \in mine \ Range(q) : \A i \in 1..n :
                  PublishedKey(q[i], nullsAt) >= PublishedKey(p, nullsAt)}
          : nullsAt \in {"first", "last"}}

(* Mutant of handlerBrowse: without an argument every post is asked for. *)
handlerBrowse_NoDefaultLimit(cmd, user) ==
    LET a == IF Len(cmd.args) >= 1 THEN Atoi(cmd.args[1])
                                   ELSE [n |-> Cardinality(posts) + 1, err |-> Nil]
    IN  IF a.err # Nil \/ a.n <= 0
        THEN Fail(cmd, <<"browse limit must be a positive integer">>, TRUE, TRUE)
        ELSE \E q \in GetPostsForUser(user.id, a.n) : Done(cmd, TRUE, TRUE, q)

handlerBrowse(cmd, user) ==
    LET a == IF Len(cmd.args) >= 1 THEN Atoi(cmd.args[1]) ELSE [n |-> 2, err |-> Nil]
    IN  IF a.err # Nil \/ a.n <= 0
        THEN Fail(cmd, <<"browse limit must be a positive integer">>, TRUE, TRUE)
        ELSE \E q \in GetPostsForUser(user.id, a.n) : Done(cmd, TRUE, TRUE, q)

(* middlewareLoggedIn(handlerAddFeed), ...(handlerUnfollow),               *)
(* ...(handlerBrowse): the handler runs with the user the gate resolved,   *)
(* or the gate's error is the command's.                                   *)
loggedInAddFeed(cmd) ==
    LET g == middlewareLoggedIn
    IN  IF g.err # Nil THEN Fail(cmd, g.err, g.lookup, FALSE)
                       ELSE handlerAddFeed(cmd, g.user)

loggedInUnfollow(cmd) ==
    LET g == middlewareLoggedIn
    IN  IF g.err # Nil THEN Fail(cmd, g.err, g.lookup, FALSE)
                       ELSE handlerUnfollow(cmd, g.user)

loggedInBrowse(cmd) ==
    LET g == middlewareLoggedIn
    IN  IF g.err # Nil THEN Fail(cmd, g.err, g.lookup, FALSE)
                       ELSE handlerBrowse(cmd, g.user)

----------------------------------------------------------------------------
(* rss.go *)

(* The items the feeds serve, as the XML decoder yields them. *)
RawItems ==
    { [Title |-> "T &amp; C", Link |-> "l1", Description |-> "d1",
       PubDate |-> "Mon, 02 Jan 2006 15:04:05 -0700"],
      [Title |-> "t2", Link |-> "l1", Description |-> "", PubDate |-> ""],
      [Title |-> "t3", Link |-> "l2", Description |-> "", PubDate |-> "yesterday"],
      [Title |-> "t4", Link |-> "l3", Description |-> "",
       PubDate |-> "Tue, 03 Jan 2006 15:04:05 -0700"] }

(* The documents served: up to MaxItems of the items, each listed once, in *)
(* any order (two items of one document may still carry the same link).   *)
RawDocs ==
    UNION {{d \in [1..n -> RawItems] : \A i, j \in 1..n : i # j => d[i] # d[j]}
              : n \in 0..MaxItems}

(* Feed URLs that serve a digest, like every URL but "u1": a document of   *)
(* one item at most.                                                       *)
Digests == {"s1", "s2"}

(* Feed URLs of a channel that has no item yet. *)
EmptyFeeds == {"e1"}

(* The documents a GET of feedURL may come back with: "u1" serves every    *)
(* document, a channel without items the empty one, the other URLs         *)
(* digests.                                                                *)
Served(feedURL) ==
    CASE feedURL = "u1" -> RawDocs
      [] feedURL \in EmptyFeeds -> {<<>>}
      [] OTHER -> {d \in RawDocs : Len(d) <= 1}

(* html.UnescapeString on the texts served. *)
UnescapeString(str) == IF str = "T &amp; C" THEN "T & C" ELSE str

(* fetchFeed: the outcomes of one GET of feedURL.  The request fails, the  *)
(* body does not decode, or a document comes back with the titles and      *)
(* descriptions of its items unescaped.  What a URL serves is up to the    *)
(* network.                                                                *)
fetchFeed(feedURL) ==
    {[err |-> <<"do request">>, feed |-> <<>>],
     [err |-> <<"unmarshal xml">>, feed |-> <<>>]}
    \cup
    {[err |-> Nil,
      feed |-> [i \in DOMAIN d |->
                  [d[i] EXCEPT !.Title = UnescapeString(d[i].Title),
                               !.Description = UnescapeString(d[i].Description)]]]
        : d \in Served(feedURL)}

(* parsePubDate: the time a publication date states, when it is in one of  *)
(* the accepted layouts (RFC 1123 with a numeric zone among them).         *)
parsePubDate(str) ==
    CASE str = "Mon, 02 Jan 2006 15:04:05 -0700" -> [t |-> 1136239445, ok |-> TRUE]
      [] str = "Tue, 03 Jan 2006 15:04:05 -0700" -> [t |-> 1136325845, ok |-> TRUE]
      [] OTHER -> [t |-> 0, ok |-> FALSE]

----------------------------------------------------------------------------
(* agg: handlerAgg and scrapeFeeds, as process a. *)

NoFeed == [id |-> 0, name |-> "", url |-> "", user_id |-> 0, last_fetched_at |-> NULL]

(* What a step of scrapeFeeds by process a reports, in res. *)
Event(a, err, out) ==
    Result([name |-> "scrapeFeeds", args |-> <<a>>], err, FALSE, FALSE, out)

Fetching == {"scrape", "mark", "fetch", "ingest"}
InLoop == Fetching \cup {"idle"}

(* time.ParseDuration on the intervals tried. *)
ParseDuration(str) ==
    CASE str = "1s" -> [d |-> 1, err |-> Nil]
      [] str = "0s" -> [d |-> 0, err |-> Nil]
      [] OTHER -> [d |-> 0, err |-> <<"time: invalid duration">>]

(* Mutant of handlerAgg: without an interval the loop runs every second. *)
handlerAgg_DefaultInterval(a, cmd) ==
    LET r == IF Len(cmd.args) # 1 THEN [d |-> 1, err |-> Nil]
                                  ELSE ParseDuration(cmd.args[1])
    IN  IF r.err # Nil
        THEN /\ res' = Result(cmd, r.err, FALSE, FALSE, <<>>)
             /\ UNCHANGED agg
        ELSE IF r.d <= 0
        THEN /\ res' = Result(cmd, <<"panic: non-positive interval for NewTicker">>,
                              FALSE, FALSE, <<"Collecting feeds every %s">>)
             /\ UNCHANGED agg
        ELSE /\ pc' = [pc EXCEPT ![a] = "scrape"]
             /\ res' = Result(cmd, Nil, FALSE, FALSE, <<"Collecting feeds every %s">>)
             /\ UNCHANGED <<feed, rss, idx>>

(* handlerAgg up to the first iteration of its loop, which runs            *)
(* scrapeFeeds before it waits for a tick.  time.NewTicker panics on an    *)
(* interval that is not positive.                                          *)
(* handlerAgg, were the tick awaited before the first cycle as well. *)
handlerAgg_WaitsFirst(a, cmd) ==
    IF Len(cmd.args) # 1
    THEN /\ res' = Result(cmd, <<"agg requires a time_between_reqs (e.g. 1s, 1m, 1h)">>,
                          FALSE, FALSE, <<>>)
         /\ UNCHANGED agg
    ELSE LET r == ParseDuration(cmd.args[1])
         IN  IF r.err # Nil
             THEN /\ res' = Result(cmd, r.err, FALSE, FALSE, <<>>)
                  /\ UNCHANGED agg
             ELSE IF r.d <= 0
             THEN /\ res' = Result(cmd, <<"panic: non-positive interval for NewTicker">>,
                                   FALSE, FALSE, <<"Collecting feeds every %s">>)
                  /\ UNCHANGED agg
             ELSE /\ pc' = [pc EXCEPT ![a] = "idle"]
                  /\ res' = Result(cmd, Nil, FALSE, FALSE, <<"Collecting feeds every %s">>)
                  /\ UNCHANGED <<feed, rss, idx>>

handlerAgg(a, cmd) ==
    IF Len(cmd.args) # 1
    THEN /\ res' = Result(cmd, <<"agg requires a time_between_reqs (e.g. 1s, 1m, 1h)">>,
                          FALSE, FALSE, <<>>)
         /\ UNCHANGED agg
    ELSE LET r == ParseDuration(cmd.args[1])
         IN  IF r.err # Nil
             THEN /\ res' = Result(cmd, r.err, FALSE, FALSE, <<>>)
                  /\ UNCHANGED agg
             ELSE IF r.d <= 0
             THEN /\ res' = Result(cmd, <<"panic: non-positive interval for NewTicker">>,
                                   FALSE, FALSE, <<"Collecting feeds every %s">>)
                  /\ UNCHANGED agg
             ELSE /\ pc' = [pc EXCEPT ![a] = "scrape"]
                  /\ res' = Result(cmd, Nil, FALSE, FALSE, <<"Collecting feeds every %s">>)
                  /\ UNCHANGED <<feed, rss, idx>>

(* Mutant of handlerAggLoop: an error of scrapeFeeds is returned, which     *)
(* ends the process.                                                       *)
handlerAggLoop_ReturnsError(a, err) ==
    /\ pc' = [pc EXCEPT ![a] = IF err # Nil THEN "off" ELSE "idle"]
    /\ feed' = [feed EXCEPT ![a] = NoFeed]
    /\ rss' = [rss EXCEPT ![a] = <<>>]
    /\ idx' = [idx EXCEPT ![a] = 0]
    /\ res' = Event(a, err, IF err # Nil THEN <<"error scraping feeds:">> ELSE <<>>)

(* The loop after scrapeFeeds returned err: an error goes to stderr, and   *)
(* the loop waits for the next tick either way.                            *)
handlerAggLoop(a, err) ==
    /\ pc' = [pc EXCEPT ![a] = "idle"]
    /\ feed' = [feed EXCEPT ![a] = NoFeed]
    /\ rss' = [rss EXCEPT ![a] = <<>>]
    /\ idx' = [idx EXCEPT ![a] = 0]
    /\ res' = Event(a, err, IF err # Nil THEN <<"error scraping feeds:">> ELSE <<>>)

(* <-ticker.C *)
handlerAggTick(a) ==
    /\ pc[a] = "idle"
    /\ pc' = [pc EXCEPT ![a] = "scrape"]
    /\ res' = Result([name |-> "tick", args |-> <<a>>], Nil, FALSE, FALSE, <<>>)
    /\ UNCHANGED <<users, feeds, follows, posts, CurrentUserName, nextId, now,
                   feed, rss, idx>>

(* Mutant of scrapeFeedsNext: the feed is fetched without being marked. *)
scrapeFeedsNext_NoMark(a) ==
    /\ pc[a] = "scrape"
    /\ IF GetNextFeedToFetch = {}
       THEN handlerAggLoop(a, ErrNoRows)
       ELSE \E f \in GetNextFeedToFetch :
              /\ feed' = [feed EXCEPT ![a] = f]
              /\ pc' = [pc EXCEPT ![a] = "fetch"]
              /\ res' = Event(a, Nil, <<"next", f.id>>)
              /\ UNCHANGED <<rss, idx>>
    /\ UNCHANGED <<users, feeds, follows, posts, CurrentUserName, nextId, now>>

(* scrapeFeeds: GetNextFeedToFetch *)
scrapeFeedsNext(a) ==
    /\ pc[a] = "scrape"
    /\ IF GetNextFeedToFetch = {}
       THEN handlerAggLoop(a, ErrNoRows)
       ELSE \E f \in GetNextFeedToFetch :
              /\ feed' = [feed EXCEPT ![a] = f]
              /\ pc' = [pc EXCEPT ![a] = "mark"]
              /\ res' = Event(a, Nil, <<"next", f.id>>)
              /\ UNCHANGED <<rss, idx>>
    /\ UNCHANGED <<users, feeds, follows, posts, CurrentUserName, nextId, now>>

(* Mutant of MarkedFeedID: the id of the feed's owner is passed. *)
MarkedFeedID_UserID(a) == feed[a].user_id

(* The id scrapeFeeds passes to MarkFeedFetched: feed.ID *)
MarkedFeedID(a) == feed[a].id

(* scrapeFeeds, were every feed marked as fetched. *)
scrapeFeedsMark_EveryFeed(a) ==
    /\ pc[a] = "mark"
    /\ now < MaxClock
    /\ now' = now + 1
    /\ feeds' = {[f EXCEPT !.last_fetched_at = now'] : f \in feeds}
    /\ pc' = [pc EXCEPT ![a] = "fetch"]
    /\ res' = Event(a, Nil, <<"fetching feed: %s (%s)", feed[a].name, feed[a].url>>)
    /\ UNCHANGED <<users, follows, posts, CurrentUserName, nextId, feed, rss, idx>>

(* scrapeFeeds: MarkFeedFetched *)
scrapeFeedsMark(a) ==
    /\ pc[a] = "mark"
    /\ now < MaxClock
    /\ now' = now + 1
    /\ feeds' = MarkFeedFetched(MarkedFeedID(a), now')
    /\ pc' = [pc EXCEPT ![a] = "fetch"]
    /\ res' = Event(a, Nil, <<"fetching feed: %s (%s)", feed[a].name, feed[a].url>>)
    /\ UNCHANGED <<users, follows, posts, CurrentUserName, nextId, feed, rss, idx>>

(* The timestamps of fs as ranks: the earliest is 1, the next 2, ...       *)
(* GetNextFeedToFetch reads nothing but their order.                       *)
Ranked(fs) ==
    LET times == {f.last_fetched_at : f \in fs} \ {NULL}
        rank(t) == Cardinality({u \in times : u <= t})
    IN  {IF f.last_fetched_at = NULL THEN f
         ELSE [f EXCEPT !.last_fetched_at = rank(f.last_fetched_at)] : f \in fs}

(* scrapeFeeds: MarkFeedFetched, for runs without end: the clock moves on  *)
(* and the timestamps are kept as ranks, which bounds them.                *)
scrapeFeedsMarkRanked(a) ==
    /\ pc[a] = "mark"
    /\ feeds' = Ranked(MarkFeedFetched(MarkedFeedID(a), now + 1))
    /\ now' = Cardinality({f.last_fetched_at : f \in feeds'} \ {NULL})
    /\ pc' = [pc EXCEPT ![a] = "fetch"]
    /\ res' = Event(a, Nil, <<"fetching feed: %s (%s)", feed[a].name, feed[a].url>>)
    /\ UNCHANGED <<users, follows, posts, CurrentUserName, nextId, feed, rss, idx>>

(* Mutant of scrapeFeedsFetch: a failed fetch is tried again at once. *)
scrapeFeedsFetch_Retries(a) ==
    /\ pc[a] = "fetch"
    /\ \E r \in fetchFeed(feed[a].url) :
          IF r.err # Nil
          THEN /\ res' = Event(a, r.err, <<"retry">>)
               /\ UNCHANGED <<pc, feed, rss, idx>>
          ELSE /\ rss' = [rss EXCEPT ![a] = r.feed]
               /\ idx' = [idx EXCEPT ![a] = 1]
               /\ pc' = [pc EXCEPT ![a] = "ingest"]
               /\ res' = Event(a, Nil, <<"fetched">>)
               /\ UNCHANGED feed
    /\ UNCHANGED <<users, feeds, follows, posts, CurrentUserName, nextId, now>>

(* Mutant of scrapeFeedsFetch: a fetch that failed puts last_fetched_at    *)
(* back to what it was when the feed was selected.                         *)
scrapeFeedsFetch_UnmarksOnFailure(a) ==
    /\ pc[a] = "fetch"
    /\ \E r \in fetchFeed(feed[a].url) :
          IF r.err # Nil
          THEN /\ handlerAggLoop(a, r.err)
               /\ feeds' = MarkFeedFetched(feed[a].id, feed[a].last_fetched_at)
          ELSE /\ rss' = [rss EXCEPT ![a] = r.feed]
               /\ idx' = [idx EXCEPT ![a] = 1]
               /\ pc' = [pc EXCEPT ![a] = "ingest"]
               /\ res' = Event(a, Nil, <<"fetched">>)
               /\ UNCHANGED <<feed, feeds>>
    /\ UNCHANGED <<users, follows, posts, CurrentUserName, nextId, now>>

(* scrapeFeeds: fetchFeed *)
scrapeFeedsFetch(a) ==
    /\ pc[a] = "fetch"
    /\ \E r \in fetchFeed(feed[a].url) :
          IF r.err # Nil
          THEN handlerAggLoop(a, r.err)
          ELSE /\ rss' = [rss EXCEPT ![a] = r.feed]
               /\ idx' = [idx EXCEPT ![a] = 1]
               /\ pc' = [pc EXCEPT ![a] = "ingest"]
               /\ res' = Event(a, Nil, <<"fetched">>)
               /\ UNCHANGED feed
    /\ UNCHANGED <<users, feeds, follows, posts, CurrentUserName, nextId, now>>

(* Mutant of scrapeFeedsItem: the loop over the items ends at the first    *)
(* duplicate URL (break in the place of continue).                         *)
scrapeFeedsItem_BreaksOnDuplicate(a) ==
    /\ pc[a] = "ingest"
    /\ idx[a] <= Len(rss[a])
    /\ LET item == rss[a][idx[a]]
           desc == IF item.Description # ""
                   THEN [String |-> item.Description, Valid |-> TRUE]
                   ELSE [String |-> "", Valid |-> FALSE]
           p == parsePubDate(item.PubDate)
           publishedAt == IF p.ok THEN [Time |-> p.t, Valid |-> TRUE]
                                  ELSE [Time |-> 0, Valid |-> FALSE]
           r == CreatePost(item.Title, item.Link, desc, publishedAt, feed[a].id)
       IN  /\ posts' = r.posts
           /\ res' = Event(a, r.err,
                           IF r.err # Nil /\ r.err # ErrUnique
                           THEN <<"error creating post (url=%s): %v", item.Link>>
                           ELSE <<"item", item.Link>>)
           /\ idx' = [idx EXCEPT ![a] = IF r.err = ErrUnique THEN Len(rss[a]) + 1
                                                             ELSE idx[a] + 1]
    /\ UNCHANGED <<users, feeds, follows, CurrentUserName, nextId, now, pc, feed, rss>>

(* Mutant of scrapeFeedsItem: an insert refused for another reason than a  *)
(* duplicate URL ends the cycle with the error.                            *)
scrapeFeedsItem_ReturnsOnFailure(a) ==
    /\ pc[a] = "ingest"
    /\ idx[a] <= Len(rss[a])
    /\ LET item == rss[a][idx[a]]
           desc == IF item.Description # ""
                   THEN [String |-> item.Description, Valid |-> TRUE]
                   ELSE [String |-> "", Valid |-> FALSE]
           p == parsePubDate(item.PubDate)
           publishedAt == IF p.ok THEN [Time |-> p.t, Valid |-> TRUE]
                                  ELSE [Time |-> 0, Valid |-> FALSE]
           r == CreatePost(item.Title, item.Link, desc, publishedAt, feed[a].id)
       IN  /\ posts' = r.posts
           /\ IF r.err # Nil /\ r.err # ErrUnique
              THEN handlerAggLoop(a, r.err)
              ELSE /\ res' = Event(a, r.err, <<"item", item.Link>>)
                   /\ idx' = [idx EXCEPT ![a] = idx[a] + 1]
                   /\ UNCHANGED <<pc, feed, rss>>
    /\ UNCHANGED <<users, feeds, follows, CurrentUserName, nextId, now>>

(* Mutant of scrapeFeedsItem: a refused insert ends the cycle with the      *)
(* error, a duplicate URL included.                                        *)
scrapeFeedsItem_ReturnsError(a) ==
    /\ pc[a] = "ingest"
    /\ idx[a] <= Len(rss[a])
    /\ LET item == rss[a][idx[a]]
           desc == IF item.Description # ""
                   THEN [String |-> item.Description, Valid |-> TRUE]
                   ELSE [String |-> "", Valid |-> FALSE]
           p == parsePubDate(item.PubDate)
           publishedAt == IF p.ok THEN [Time |-> p.t, Valid |-> TRUE]
                                  ELSE [Time |-> 0, Valid |-> FALSE]
           r == CreatePost(item.Title, item.Link, desc, publishedAt, feed[a].id)
       IN  /\ posts' = r.posts
           /\ IF r.err # Nil
              THEN handlerAggLoop(a, r.err)
              ELSE /\ res' = Event(a, r.err, <<"item", item.Link>>)
                   /\ idx' = [idx EXCEPT ![a] = idx[a] + 1]
                   /\ UNCHANGED <<pc, feed, rss>>
    /\ UNCHANGED <<users, feeds, follows, CurrentUserName, nextId, now>>

(* scrapeFeeds, were the description always stored as present. *)
scrapeFeedsItem_EmptyDescription(a) ==
    /\ pc[a] = "ingest"
    /\ idx[a] <= Len(rss[a])
    /\ LET item == rss[a][idx[a]]
           desc == [String |-> item.Description, Valid |-> TRUE]
           p == parsePubDate(item.PubDate)
           publishedAt == IF p.ok THEN [Time |-> p.t, Valid |-> TRUE]
                                  ELSE [Time |-> 0, Valid |-> FALSE]
           r == CreatePost(item.Title, item.Link, desc, publishedAt, feed[a].id)
       IN  /\ posts' = r.posts
           /\ res' = Event(a, r.err,
                           IF r.err # Nil /\ r.err # ErrUnique
                           THEN <<"error creating post (url=%s): %v", item.Link>>
                           ELSE <<"item", item.Link>>)
    /\ idx' = [idx EXCEPT ![a] = idx[a] + 1]
    /\ UNCHANGED <<users, feeds, follows, CurrentUserName, nextId, now, pc, feed, rss>>

(* scrapeFeeds: one iteration of the loop over the items. *)
scrapeFeedsItem(a) ==
    /\ pc[a] = "ingest"
    /\ idx[a] <= Len(rss[a])
    /\ LET item == rss[a][idx[a]]
           desc == IF item.Description # ""
                   THEN [String |-> item.Description, Valid |-> TRUE]
                   ELSE [String |-> "", Valid |-> FALSE]
           p == parsePubDate(item.PubDate)
           publishedAt == IF p.ok THEN [Time |-> p.t, Valid |-> TRUE]
                                  ELSE [Time |-> 0, Valid |-> FALSE]
           r == CreatePost(item.Title, item.Link, desc, publishedAt, feed[a].id)
       IN  /\ posts' = r.posts
           /\ res' = Event(a, r.err,
                           IF r.err # Nil /\ r.err # ErrUnique
                           THEN <<"error creating post (url=%s): %v", item.Link>>
                           ELSE <<"item", item.Link>>)
    /\ idx' = [idx EXCEPT ![a] = idx[a] + 1]
    /\ UNCHANGED <<users, feeds, follows, CurrentUserName, nextId, now, pc, feed, rss>>

(* scrapeFeeds: return nil after the last item. *)
scrapeFeedsReturn(a) ==
    /\ pc[a] = "ingest"
    /\ idx[a] > Len(rss[a])
    /\ handlerAggLoop(a, Nil)
    /\ UNCHANGED <<users, feeds, follows, posts, CurrentUserName, nextId, now>>

(* The process is ended from outside (a signal), wherever it is. *)
Interrupt(a) ==
    /\ pc[a] \in InLoop
    /\ pc' = [pc EXCEPT ![a] = "off"]
    /\ feed' = [feed EXCEPT ![a] = NoFeed]
    /\ rss' = [rss EXCEPT ![a] = <<>>]
    /\ idx' = [idx EXCEPT ![a] = 0]
    /\ res' = Result([name |-> "interrupt", args |-> <<a>>], Nil, FALSE, FALSE, <<>>)
    /\ UNCHANGED <<users, feeds, follows, posts, CurrentUserName, nextId, now>>

----------------------------------------------------------------------------
(* main: the handlers registered, and commands.run. *)

(* The handlers main registers, by name, in the order of its calls of      *)
(* register.                                                               *)
MainRegistrations ==
    << [name |-> "login", f |-> "handlerLogin"],
       [name |-> "register", f |-> "handlerRegister"],
       [name |-> "reset", f |-> "handlerReset"],
       [name |-> "users", f |-> "handlerUsers"],
       [name |-> "agg", f |-> "handlerAgg"],
       [name |-> "addfeed", f |-> "middlewareLoggedIn(handlerAddFeed)"],
       [name |-> "feeds", f |-> "handlerFeeds"],
       [name |-> "follow", f |-> "handlerFollow"],
       [name |-> "following", f |-> "handlerFollowing"],
       [name |-> "unfollow", f |-> "middlewareLoggedIn(handlerUnfollow)"],
       [name |-> "browse", f |-> "middlewareLoggedIn(handlerBrowse)"] >>

NoHandlers == [n \in {} |-> ""]

(* Mutant of register: a name that has a handler keeps it. *)
register_KeepsFirst(h, name, f) ==
    [n \in DOMAIN h \cup {name} |-> IF n \in DOMAIN h THEN h[n] ELSE f]

(* commands.register: c.handlers[name] = f *)
register(h, name, f) ==
    [n \in DOMAIN h \cup {name} |-> IF n = name THEN f ELSE h[n]]

(* The map after the calls rs of register on the map h. *)
RECURSIVE registerAll(_, _)
registerAll(h, rs) ==
    IF rs = <<>> THEN h
    ELSE registerAll(register(h, Head(rs).name, Head(rs).f), Tail(rs))

Registered == DOMAIN handlers

(* The call handler(s, cmd) of the handler f, in the process a: only agg   *)
(* keeps a running.                                                        *)
Invoke(f, a, cmd) ==
    IF f = "handlerAgg"
    THEN /\ pc[a] = "off"
         /\ handlerAgg(a, cmd)
         /\ UNCHANGED <<users, feeds, follows, posts, CurrentUserName, nextId, now>>
    ELSE /\ UNCHANGED agg
         /\ CASE f = "handlerLogin" -> handlerLogin(cmd)
              [] f = "handlerRegister" -> handlerRegister(cmd)
              [] f = "handlerReset" -> handlerReset(cmd)
              [] f = "handlerUsers" -> handlerUsers(cmd)
              [] f = "middlewareLoggedIn(handlerAddFeed)" -> loggedInAddFeed(cmd)
              [] f = "handlerFeeds" -> handlerFeeds(cmd)
              [] f = "handlerFollow" -> handlerFollow(cmd)
              [] f = "handlerFollowing" -> handlerFollowing(cmd)
              [] f = "middlewareLoggedIn(handlerUnfollow)" -> loggedInUnfollow(cmd)
              [] f = "middlewareLoggedIn(handlerBrowse)" -> loggedInBrowse(cmd)

(* commands.run, by the process a. *)
run(a, cmd) ==
    IF cmd.name \notin DOMAIN handlers
    THEN Fail(cmd, <<"unknown command: %s", cmd.name>>, FALSE, FALSE) /\ UNCHANGED agg
    ELSE Invoke(handlers[cmd.name], a, cmd)

----------------------------------------------------------------------------
(* The command lines tried. *)

Cmd(name, args) == [name |-> name, args |-> args]

NameArgs == {<<>>} \cup {<<n>> : n \in Names}
UrlArgs == {<<>>, <<"u1", "u2">>} \cup {<<u>> : u \in Urls}
AddFeedArgs == {<<n>> : n \in FeedNames} \cup {<<n, u>> : n \in FeedNames, u \in Urls}
NoArgs == {<<>>, <<"x">>}
BrowseArgs == {<<>>, <<"1">>, <<"3">>, <<"0">>, <<"-1">>, <<"x">>}
AggArgs == {<<>>, <<"1s">>, <<"0s">>, <<"soon">>}

Register == \E args \in NameArgs : run(1, Cmd("register", args)) /\ UNCHANGED <<hist, handlers>>
Login == \E args \in NameArgs : run(1, Cmd("login", args)) /\ UNCHANGED <<hist, handlers>>
Reset == run(1, Cmd("reset", <<>>)) /\ UNCHANGED <<hist, handlers>>
Users == run(1, Cmd("users", <<>>)) /\ UNCHANGED <<hist, handlers>>
AddFeed == \E args \in AddFeedArgs : run(1, Cmd("addfeed", args)) /\ UNCHANGED <<hist, handlers>>
Feeds == \E args \in NoArgs : run(1, Cmd("feeds", args)) /\ UNCHANGED <<hist, handlers>>
Follow == \E args \in UrlArgs : run(1, Cmd("follow", args)) /\ UNCHANGED <<hist, handlers>>
Following == \E args \in NoArgs : run(1, Cmd("following", args)) /\ UNCHANGED <<hist, handlers>>
Unfollow == \E args \in UrlArgs : run(1, Cmd("unfollow", args)) /\ UNCHANGED <<hist, handlers>>
Browse == \E args \in BrowseArgs : run(1, Cmd("browse", args)) /\ UNCHANGED <<hist, handlers>>
Unknown == run(1, Cmd("logout", <<>>)) /\ UNCHANGED <<hist, handlers>>
Agg(a) == \E args \in AggArgs : run(a, Cmd("agg", args)) /\ UNCHANGED <<hist, handlers>>

NoCycle == [before |-> {}, tried |-> <<>>]

Tick(a) == handlerAggTick(a) /\ UNCHANGED <<hist, handlers>>
Select(a) == scrapeFeedsNext(a) /\ UNCHANGED <<hist, handlers>>
Mark(a) == scrapeFeedsMark(a) /\ UNCHANGED <<hist, handlers>>
Fetch(a) == scrapeFeedsFetch(a) /\ UNCHANGED <<hist, handlers>>
Item(a) == scrapeFeedsItem(a) /\ UNCHANGED <<hist, handlers>>
Return(a) == scrapeFeedsReturn(a) /\ UNCHANGED <<hist, handlers>>
Stop(a) == Interrupt(a) /\ UNCHANGED <<hist, handlers>>

----------------------------------------------------------------------------
(* The commands other than agg, in any order. *)

Init ==
    /\ users = {}
    /\ feeds = {}
    /\ follows = {}
    /\ posts = {}
    /\ CurrentUserName = ""
    /\ nextId = 0
    /\ now = 0
    /\ res = NoRes
    /\ pc = [a \in Procs |-> "off"]
    /\ feed = [a \in Procs |-> NoFeed]
    /\ rss = [a \in Procs |-> <<>>]
    /\ idx = [a \in Procs |-> 0]
    /\ selLog = <<>>
    /\ cyc = NoCycle
    /\ held = {}
    /\ regs = MainRegistrations
    /\ handlers = registerAll(NoHandlers, regs)

Next ==
    \/ Register
    \/ Login
    \/ Reset
    \/ Users
    \/ AddFeed
    \/ Feeds
    \/ Follow
    \/ Following
    \/ Unfollow
    \/ Browse
    \/ Unknown

Spec == Init /\ [][Next]_vars

----------------------------------------------------------------------------
(* The aggregator at work: one agg process, beside the commands that give  *)
(* it feeds and take them away.                                            *)

RegisterAlice == run(1, Cmd("register", <<"alice">>)) /\ UNCHANGED <<hist, handlers>>
AddFeedBlog == \E u \in Urls : run(1, Cmd("addfeed", <<"blog", u>>)) /\ UNCHANGED <<hist, handlers>>

NextAgg ==
    \/ RegisterAlice
    \/ AddFeedBlog
    \/ Reset
    \/ Agg(1)
    \/ Tick(1)
    \/ Select(1)
    \/ Mark(1)
    \/ Fetch(1)
    \/ Item(1)
    \/ Return(1)
    \/ Stop(1)

SpecAgg == Init /\ [][NextAgg]_vars

----------------------------------------------------------------------------
(* The scheduler alone: one agg process on a store that alice has filled   *)
(* with n feeds, none fetched yet, and that nobody else touches.  selLog   *)
(* records the feed each cycle selected.                                   *)

SchedFeed(k) ==
    [id |-> k + 1, name |-> "blog", url |-> "u" \o ToString(k), user_id |-> 1,
     last_fetched_at |-> NULL]

InitSched ==
    \E n \in 0..MaxFeeds :
        /\ users = {[id |-> 1, name |-> "alice"]}
        /\ feeds = {SchedFeed(k) : k \in 1..n}
        /\ follows = {[id |-> 1, user_id |-> 1, feed_id |-> k + 1] : k \in 1..n}
        /\ posts = {}
        /\ CurrentUserName = "alice"
        /\ nextId = n + 1
        /\ now = 0
        /\ res = NoRes
        /\ pc = [a \in Procs |-> "off"]
        /\ feed = [a \in Procs |-> NoFeed]
        /\ rss = [a \in Procs |-> <<>>]
        /\ idx = [a \in Procs |-> 0]
        /\ selLog = <<>>
        /\ cyc = NoCycle
        /\ held = {}
        /\ regs = MainRegistrations
        /\ handlers = registerAll(NoHandlers, regs)

SelectLogged(a) ==
    /\ Len(selLog) < MaxLog
    /\ scrapeFeedsNext(a)
    /\ selLog' = IF pc'[a] = "mark" THEN Append(selLog, feed'[a].id) ELSE selLog
    /\ UNCHANGED <<cyc, regs, held, handlers>>

NextSched ==
    \/ Agg(1)
    \/ Tick(1)
    \/ SelectLogged(1)
    \/ Mark(1)
    \/ Fetch(1)
    \/ Item(1)
    \/ Return(1)

SpecSched == InitSched /\ [][NextSched]_vars

(* The scheduler running without end: the ticks keep coming, and every     *)
(* call of a cycle returns (the fetch has a timeout).                      *)

StartAgg(a) == run(a, Cmd("agg", <<"1s">>)) /\ UNCHANGED <<hist, handlers>>
MarkRanked(a) == scrapeFeedsMarkRanked(a) /\ UNCHANGED <<hist, handlers>>

NextLive ==
    \/ StartAgg(1)
    \/ Tick(1)
    \/ Select(1)
    \/ MarkRanked(1)
    \/ Fetch(1)
    \/ Item(1)
    \/ Return(1)

DigestFeed(k) ==
    [id |-> k + 1, name |-> "blog", url |-> "s" \o ToString(k), user_id |-> 1,
     last_fetched_at |-> NULL]

(* alice has added some digests and follows each. *)
InitLive ==
    \E n \in 0..MaxFeeds :
        /\ users = {[id |-> 1, name |-> "alice"]}
        /\ feeds = {DigestFeed(k) : k \in 1..n}
        /\ follows = {[id |-> 1, user_id |-> 1, feed_id |-> k + 1] : k \in 1..n}
        /\ posts = {}
        /\ CurrentUserName = "alice"
        /\ nextId = n + 1
        /\ now = 0
        /\ res = NoRes
        /\ pc = [a \in Procs |-> "off"]
        /\ feed = [a \in Procs |-> NoFeed]
        /\ rss = [a \in Procs |-> <<>>]
        /\ idx = [a \in Procs |-> 0]
        /\ selLog = <<>>
        /\ cyc = NoCycle
        /\ held = {}
        /\ regs = MainRegistrations
        /\ handlers = registerAll(NoHandlers, regs)

SpecLive == InitLive /\ [][NextLive]_vars /\ WF_vars(NextLive)

----------------------------------------------------------------------------
(* Two agg processes on one store: every step of either may come between   *)
(* two steps of the other.                                                 *)

NextTwo ==
    \E a \in Procs :
        \/ StartAgg(a)
        \/ Tick(a)
        \/ Select(a)
        \/ Mark(a)
        \/ Fetch(a)
        \/ Item(a)
        \/ Return(a)

(* alice has added the two digests. *)
InitTwo ==
    /\ users = {[id |-> 1, name |-> "alice"]}
    /\ feeds = {DigestFeed(1), DigestFeed(2)}
    /\ follows = {[id |-> 1, user_id |-> 1, feed_id |-> 2],
                  [id |-> 1, user_id |-> 1, feed_id |-> 3]}
    /\ posts = {}
    /\ CurrentUserName = "alice"
    /\ nextId = 3
    /\ now = 0
    /\ res = NoRes
    /\ pc = [a \in Procs |-> "off"]
    /\ feed = [a \in Procs |-> NoFeed]
    /\ rss = [a \in Procs |-> <<>>]
    /\ idx = [a \in Procs |-> 0]
    /\ selLog = <<>>
    /\ cyc = NoCycle
    /\ held = {}
    /\ regs = MainRegistrations
    /\ handlers = registerAll(NoHandlers, regs)

SpecTwo == InitTwo /\ [][NextTwo]_vars

----------------------------------------------------------------------------
(* One agg process on alice's feed, a reset at any moment, and a record of *)
(* each cycle: the posts stored when it selected its feed, and the insert  *)
(* of each item with the error it got.                                     *)

SelectRecorded(a) ==
    /\ scrapeFeedsNext(a)
    /\ cyc' = [before |-> posts, tried |-> <<>>]
    /\ UNCHANGED <<selLog, regs, held, handlers>>

ItemRecorded(a) ==
    /\ scrapeFeedsItem(a)
    /\ cyc' = [cyc EXCEPT !.tried =
                  Append(@, [link |-> rss[a][idx[a]].Link, err |-> res'.err])]
    /\ UNCHANGED <<selLog, regs, held, handlers>>

InitCycle == InitSched /\ Cardinality(feeds) = 1

NextCycle ==
    \/ StartAgg(1)
    \/ Tick(1)
    \/ SelectRecorded(1)
    \/ Mark(1)
    \/ Fetch(1)
    \/ ItemRecorded(1)
    \/ Return(1)
    \/ Reset

SpecCycle == InitCycle /\ [][NextCycle]_vars

----------------------------------------------------------------------------
(* commands on its own: some calls of register, in any order and with      *)
(* names registered more than once, then commands run by name.             *)

RegNames == {"login", "enter"}
RegHandlers == {"handlerLogin", "handlerRegister", "handlerUsers"}
RunNames == RegNames \cup {"logout"}

Registrations ==
    UNION {[1..n -> [name : RegNames, f : RegHandlers]] : n \in 0..MaxRegs}

InitRun ==
    /\ regs \in Registrations
    /\ handlers = registerAll(NoHandlers, regs)
    /\ users = {}
    /\ feeds = {}
    /\ follows = {}
    /\ posts = {}
    /\ CurrentUserName = ""
    /\ nextId = 0
    /\ now = 0
    /\ res = NoRes
    /\ pc = [a \in Procs |-> "off"]
    /\ feed = [a \in Procs |-> NoFeed]
    /\ rss = [a \in Procs |-> <<>>]
    /\ idx = [a \in Procs |-> 0]
    /\ selLog = <<>>
    /\ cyc = NoCycle
    /\ held = {}

Run ==
    \E name \in RunNames, args \in NameArgs :
        run(1, Cmd(name, args)) /\ UNCHANGED <<hist, handlers>>

NextRun == Run

SpecRun == InitRun /\ [][NextRun]_vars

----------------------------------------------------------------------------
(* Browsing: alice and bob have added a feed each, cycles of agg have      *)
(* stored some of the items under them, and the two follow, unfollow and   *)
(* browse.                                                                 *)

(* The post scrapeFeeds stores for the item `item` of a document of the    *)
(* feed feed_id.                                                           *)
PostOf(item, feed_id) ==
    LET p == parsePubDate(item.PubDate)
    IN  [title |-> UnescapeString(item.Title),
         url |-> item.Link,
         description |-> IF UnescapeString(item.Description) # ""
                         THEN [String |-> UnescapeString(item.Description), Valid |-> TRUE]
                         ELSE [String |-> "", Valid |-> FALSE],
         published_at |-> IF p.ok THEN [Time |-> p.t, Valid |-> TRUE]
                                  ELSE [Time |-> 0, Valid |-> FALSE],
         feed_id |-> feed_id]

(* The posts the cycles may have left: items stored under either feed,     *)
(* one post per URL.                                                       *)
PostSets ==
    {ps \in SUBSET {PostOf(item, f) : item \in RawItems, f \in {3, 4}} :
        \A p, q \in ps : p.url = q.url => p = q}

InitBrowse ==
    /\ users = {[id |-> 1, name |-> "alice"], [id |-> 2, name |-> "bob"]}
    /\ feeds = {[id |-> 3, name |-> "blog", url |-> "u1", user_id |-> 1,
                 last_fetched_at |-> NULL],
                [id |-> 4, name |-> "blog", url |-> "u2", user_id |-> 2,
                 last_fetched_at |-> NULL]}
    /\ follows = {[id |-> 1, user_id |-> 1, feed_id |-> 3],
                  [id |-> 1, user_id |-> 2, feed_id |-> 4]}
    /\ posts \in PostSets
    /\ CurrentUserName = "bob"
    /\ nextId = 4
    /\ now = 0
    /\ res = NoRes
    /\ pc = [a \in Procs |-> "off"]
    /\ feed = [a \in Procs |-> NoFeed]
    /\ rss = [a \in Procs |-> <<>>]
    /\ idx = [a \in Procs |-> 0]
    /\ selLog = <<>>
    /\ cyc = NoCycle
    /\ held = {}
    /\ regs = MainRegistrations
    /\ handlers = registerAll(NoHandlers, regs)

NextBrowse ==
    \/ Login
    \/ Follow
    \/ Unfollow
    \/ Browse

SpecBrowse == InitBrowse /\ [][NextBrowse]_vars

----------------------------------------------------------------------------
(* Every command, agg included, with argument lists right and wrong, on    *)
(* the store of two users with a feed each, where the posts stored so far  *)
(* are dated items of alice's feed.                                        *)

InitUsage ==
    /\ InitBrowse
    /\ \A p \in posts : p.feed_id = 3 /\ p.published_at.Valid

NextUsage ==
    \/ Register
    \/ Login
    \/ AddFeed
    \/ Feeds
    \/ Follow
    \/ Following
    \/ Unfollow
    \/ Browse
    \/ Agg(1)
    \/ Stop(1)

SpecUsage == InitUsage /\ [][NextUsage]_vars

----------------------------------------------------------------------------
(* The writers together: register, addfeed, follow, unfollow and reset, in *)
(* any order, between the steps of an agg process.  The feeds added are    *)
(* the digests.                                                            *)

AddDigest ==
    \E u \in Digests : run(1, Cmd("addfeed", <<"blog", u>>)) /\ UNCHANGED <<hist, handlers>>
FollowDigest ==
    \E u \in Digests : run(1, Cmd("follow", <<u>>)) /\ UNCHANGED <<hist, handlers>>
UnfollowDigest ==
    \E u \in Digests : run(1, Cmd("unfollow", <<u>>)) /\ UNCHANGED <<hist, handlers>>

NextWriters ==
    \/ RegisterAlice
    \/ AddDigest
    \/ FollowDigest
    \/ UnfollowDigest
    \/ Reset
    \/ StartAgg(1)
    \/ Tick(1)
    \/ Select(1)
    \/ Mark(1)
    \/ Fetch(1)
    \/ Item(1)
    \/ Return(1)

SpecWriters == Init /\ [][NextWriters]_vars

----------------------------------------------------------------------------
(* follow and unfollow on their own: alice has added a feed, bob has       *)
(* registered, posts of the feed are stored; logins, follows, unfollows    *)
(* and one more addfeed in any order.  Each follow records the follows it  *)
(* found.                                                                  *)

FollowHeld ==
    /\ \E args \in UrlArgs : run(1, Cmd("follow", args))
    /\ held' = follows
    /\ UNCHANGED <<selLog, cyc, regs, handlers>>

InitFollow ==
    /\ users = {[id |-> 1, name |-> "alice"], [id |-> 2, name |-> "bob"]}
    /\ feeds = {[id |-> 3, name |-> "blog", url |-> "u1", user_id |-> 1,
                 last_fetched_at |-> NULL]}
    /\ follows = {[id |-> 1, user_id |-> 1, feed_id |-> 3]}
    /\ posts \in {ps \in PostSets : \A p \in ps : p.feed_id = 3}
    /\ CurrentUserName = "bob"
    /\ nextId = 3
    /\ now = 0
    /\ res = NoRes
    /\ pc = [a \in Procs |-> "off"]
    /\ feed = [a \in Procs |-> NoFeed]
    /\ rss = [a \in Procs |-> <<>>]
    /\ idx = [a \in Procs |-> 0]
    /\ selLog = <<>>
    /\ cyc = NoCycle
    /\ held = {}
    /\ regs = MainRegistrations
    /\ handlers = registerAll(NoHandlers, regs)

NextFollow ==
    \/ Login
    \/ AddFeed
    \/ FollowHeld
    \/ Unfollow

SpecFollow == InitFollow /\ [][NextFollow]_vars

----------------------------------------------------------------------------
(* Every command and the agg process together, on one feed whose channel   *)
(* has no item yet (the loop over the items has no iteration).             *)

OneUrlArgs == {<<>>, <<"e1">>}

AddFeedOne ==
    \E args \in {<<"blog">>, <<"blog", "e1">>} :
        run(1, Cmd("addfeed", args)) /\ UNCHANGED <<hist, handlers>>
FollowOne ==
    \E args \in OneUrlArgs : run(1, Cmd("follow", args)) /\ UNCHANGED <<hist, handlers>>
UnfollowOne ==
    \E args \in OneUrlArgs : run(1, Cmd("unfollow", args)) /\ UNCHANGED <<hist, handlers>>
BrowseOne ==
    \E args \in {<<>>, <<"x">>} : run(1, Cmd("browse", args)) /\ UNCHANGED <<hist, handlers>>

NextAll ==
    \/ Register
    \/ Login
    \/ Reset
    \/ Users
    \/ AddFeedOne
    \/ Feeds
    \/ FollowOne
    \/ Following
    \/ UnfollowOne
    \/ BrowseOne
    \/ Unknown
    \/ Agg(1)
    \/ Tick(1)
    \/ Select(1)
    \/ Mark(1)
    \/ Fetch(1)
    \/ Return(1)
    \/ Stop(1)

SpecAll == Init /\ [][NextAll]_vars

----------------------------------------------------------------------------
(* Properties. *)

(* The step just taken was the command `name`. *)
Ran(name) == res'.cmd.name = name

(* The step just taken was a step of scrapeFeeds by process a. *)
Scraped(a) == res'.cmd = [name |-> "scrapeFeeds", args |-> <<a>>]

UserNames == {u.name : u \in users}

Gated == {"addfeed", "follow", "following", "unfollow", "browse"}

NoCurrentUser == {<<"no current user set">>, <<"no current user set (run login first)">>}

(* C1: post URLs are a dedup key.  No two stored posts share a URL; the    *)
(* ingest of an item whose link is stored already adds no post, leaves the *)
(* stored posts as they are, does not end the cycle, and the cycle returns *)
(* without an error.                                                       *)
C1_PostUrlIsDedupKey ==
    [][ /\ \A p, q \in posts' : p.url = q.url => p = q
        /\ \A a \in Procs :
             /\ ( /\ Scraped(a)
                  /\ pc[a] = "ingest"
                  /\ idx[a] <= Len(rss[a])
                  /\ \E p \in posts : p.url = rss[a][idx[a]].Link )
                => /\ posts' = posts
                   /\ pc'[a] = "ingest"
                   /\ idx'[a] = idx[a] + 1
                   /\ res'.out = <<"item", rss[a][idx[a]].Link>>
             /\ ( Scraped(a) /\ pc[a] = "ingest" /\ pc'[a] = "idle" )
                => res'.err = Nil
      ]_vars

(* C1, reached: a cycle has met an item whose link is stored under another *)
(* title, and went on.                                                     *)
C1_Witness ==
    \E a \in Procs :
        /\ pc[a] = "ingest"
        /\ idx[a] > 1
        /\ res.err = ErrUnique
        /\ \E p \in posts : /\ p.url = rss[a][idx[a] - 1].Link
                            /\ p.title # rss[a][idx[a] - 1].Title

(* C2: a session-gated command run with no current user fails with "no     *)
(* current user set", does not run its protected body, does not ask the    *)
(* store for a user and writes nothing.                                    *)
C2_NoCurrentUserFails ==
    [][ \A name \in Gated :
          ( Ran(name) /\ CurrentUserName = "" )
          => /\ res'.err \in NoCurrentUser
             /\ ~ res'.body
             /\ ~ res'.lookup
             /\ UNCHANGED <<users, feeds, follows, posts, CurrentUserName>>
      ]_vars

(* The argument list has the length the command asks for. *)
WellFormed(cmd) ==
    CASE cmd.name = "addfeed" -> Len(cmd.args) >= 2
      [] cmd.name \in {"follow", "unfollow"} -> Len(cmd.args) = 1
      [] cmd.name = "following" -> Len(cmd.args) = 0
      [] OTHER -> TRUE

(* C3: a session-gated command run with a current user that the store does *)
(* not hold fails with "user <name> does not exist", does not run its      *)
(* protected body and changes no feed, follow or post.  Stated for the     *)
(* commands given an argument list of the right length, so that no usage   *)
(* failure stands in the way.                                              *)
C3_UnknownCurrentUserFails ==
    [][ \A name \in Gated :
          ( /\ Ran(name)
            /\ WellFormed(res'.cmd)
            /\ CurrentUserName # ""
            /\ CurrentUserName \notin UserNames )
          => /\ res'.err = <<"user %s does not exist", CurrentUserName>>
             /\ ~ res'.body
             /\ UNCHANGED <<feeds, follows, posts>>
      ]_vars

(* C4: register with a name no user has succeeds, adds one user with that  *)
(* name and an id no other user has, and makes the name current; the ids   *)
(* of the users are pairwise distinct.                                     *)
C4_RegisterDistinctNames ==
    [][ /\ \A u, v \in users' : u.id = v.id => u = v
        /\ ( Ran("register") /\ Len(res'.cmd.args) >= 1
             /\ res'.cmd.args[1] \notin UserNames )
           => /\ res'.err = Nil
              /\ \E u \in users' :
                    /\ u.name = res'.cmd.args[1]
                    /\ u.id \notin {v.id : v \in users}
                    /\ users' = users \cup {u}
              /\ CurrentUserName' = res'.cmd.args[1]
      ]_vars

(* C4, reached: a second user has just been registered. *)
C4_Witness ==
    /\ res.cmd.name = "register"
    /\ res.err = Nil
    /\ Cardinality(users) = 2
    /\ CurrentUserName = res.cmd.args[1]

(* C5: register with a name a user has fails with "user <name> already     *)
(* exists", adds no user and leaves the current user name as it was; user  *)
(* names are unique.                                                       *)
C5_RegisterExistingName ==
    [][ /\ \A u, v \in users' : u.name = v.name => u = v
        /\ ( Ran("register") /\ Len(res'.cmd.args) >= 1
             /\ res'.cmd.args[1] \in UserNames )
           => /\ res'.err = <<"user %s already exists", res'.cmd.args[1]>>
              /\ users' = users
              /\ CurrentUserName' = CurrentUserName
      ]_vars

(* C5, reached: a register was refused while another user is current. *)
C5_Witness ==
    /\ res.cmd.name = "register"
    /\ res.err = <<"user %s already exists", "alice">>
    /\ CurrentUserName = "bob"

(* C6: login with a name no user has fails with "user <name> does not      *)
(* exist" and leaves the current user name as it was; login with the name  *)
(* of a user makes that name current.                                      *)
C6_Login ==
    [][ ( Ran("login") /\ Len(res'.cmd.args) >= 1 )
        => IF res'.cmd.args[1] \in UserNames
           THEN /\ res'.err = Nil
                /\ CurrentUserName' = res'.cmd.args[1]
           ELSE /\ res'.err = <<"user %s does not exist", res'.cmd.args[1]>>
                /\ CurrentUserName' = CurrentUserName
      ]_vars

(* C6, reached: a login was refused while a user is current. *)
C6_Witness ==
    /\ res.cmd.name = "login"
    /\ res.err = <<"user %s does not exist", "bob">>
    /\ CurrentUserName = "alice"

(* The row process a selected, if the store still holds it, was fetched    *)
(* at some time.                                                           *)
Marked(a) == \A f \in feeds : f.id = feed[a].id => f.last_fetched_at # NULL

FetchErrors == {<<"do request">>, <<"unmarshal xml">>}

Reported == res'.out = <<"error scraping feeds:">>

(* C8: within a cycle the selected feed is marked before it is fetched,    *)
(* and fetched before any post is inserted.  The fetch is reached only     *)
(* from the mark, which stamped the row with a new time; the ingest only   *)
(* from the fetch; posts are inserted only by the ingest.  A fetch that    *)
(* fails, or a process stopped during the fetch, leaves the feed marked    *)
(* and no post inserted, and the process waits for the next tick.          *)
C8_MarkBeforeFetchBeforeIngest ==
    [][ \A a \in Procs :
          /\ ( pc'[a] = "fetch" /\ pc[a] # "fetch" )
             => /\ pc[a] = "mark"
                /\ now' > now
                /\ \A f \in feeds' : f.id = feed[a].id => f.last_fetched_at = now'
          /\ pc'[a] \in {"fetch", "ingest"} => Marked(a)'
          /\ ( pc'[a] = "ingest" /\ pc[a] # "ingest" ) => pc[a] = "fetch"
          /\ ( Scraped(a) /\ posts' # posts ) => pc[a] = "ingest"
          /\ ( Scraped(a) /\ pc[a] = "fetch" /\ res'.err # Nil )
             => /\ res'.err \in FetchErrors
                /\ pc'[a] = "idle"
                /\ Marked(a)
                /\ UNCHANGED <<users, feeds, follows, posts>>
          /\ ( Ran("interrupt") /\ pc[a] = "fetch" /\ pc'[a] = "off" )
             => /\ Marked(a)
                /\ UNCHANGED <<users, feeds, follows, posts>>
          /\ pc[a] = "idle" => pc'[a] \in {"idle", "scrape", "off"}
      ]_vars

(* C8, reached: a fetch has failed; the feed is marked, no post is stored. *)
C8_Witness ==
    /\ res.cmd.name = "scrapeFeeds"
    /\ res.err = <<"do request">>
    /\ pc[1] = "idle"
    /\ posts = {}
    /\ \E f \in feeds : f.last_fetched_at # NULL

(* C9: no outcome of a cycle ends the agg process.  Every step of          *)
(* scrapeFeeds leaves the process in its loop; a cycle that finds no feed, *)
(* cannot fetch or cannot decode is reported on stderr and leaves the      *)
(* process idle, where the next tick starts a cycle; the cycle that finds  *)
(* no feed changes nothing stored.                                         *)
C9_CycleFailureIsNotFatal ==
    [][ \A a \in Procs :
          /\ ( Scraped(a) /\ pc[a] \in Fetching ) => pc'[a] \in InLoop
          /\ ( Scraped(a) /\ pc[a] = "scrape" /\ feeds = {} )
             => /\ res'.err # Nil
                /\ Reported
                /\ pc'[a] = "idle"
                /\ UNCHANGED <<users, feeds, follows, posts, CurrentUserName>>
          /\ ( Scraped(a) /\ pc[a] = "fetch" /\ res'.err # Nil )
             => /\ res'.err \in FetchErrors
                /\ Reported
                /\ pc'[a] = "idle"
          /\ pc[a] = "idle" => ENABLED Tick(a)
          /\ ( Ran("tick") /\ res'.cmd.args = <<a>> )
             => pc[a] = "idle" /\ pc'[a] = "scrape"
      ]_vars

(* C9, reached: a document did not decode, the error is on stderr and the  *)
(* process is idle.                                                        *)
C9_Witness ==
    /\ pc[1] = "idle"
    /\ res.cmd = [name |-> "scrapeFeeds", args |-> <<1>>]
    /\ res.err = <<"unmarshal xml">>
    /\ res.out = <<"error scraping feeds:">>

(* The cycles that have marked their feed, in a run of the scheduler alone. *)
MarksDone == IF pc[1] = "mark" THEN Len(selLog) - 1 ELSE Len(selLog)

NeverFetched == {f \in feeds : f.last_fetched_at = NULL}

(* C7: on a store of N feeds, none fetched yet and none added, the first N *)
(* cycles select N different feeds, each one never fetched when selected,  *)
(* and a feed is marked per cycle: after N cycles no feed is left with a   *)
(* NULL last_fetched_at.                                                   *)
C7_EachFeedOnce ==
    LET N == Cardinality(feeds)
        first == 1..(IF Len(selLog) < N THEN Len(selLog) ELSE N)
    IN  /\ \A i \in DOMAIN selLog : \E f \in feeds : f.id = selLog[i]
        /\ \A i, j \in first : i # j => selLog[i] # selLog[j]
        /\ pc[1] = "mark" /\ NeverFetched # {} => feed[1] \in NeverFetched
        /\ Cardinality(NeverFetched) = (IF MarksDone < N THEN N - MarksDone ELSE 0)

(* C7, reached: three feeds, three cycles, every feed selected and marked. *)
C7_Witness ==
    /\ Cardinality(feeds) = 3
    /\ Len(selLog) = 3
    /\ {selLog[i] : i \in 1..3} = {f.id : f \in feeds}
    /\ NeverFetched = {}
    /\ pc[1] = "idle"

(* C10: with the feeds fixed and the loop running, every feed of the store *)
(* is selected again and again, whatever its fetches and those of the      *)
(* other feeds do.                                                         *)
C10_EveryFeedSelectedInfinitelyOften ==
    \A k \in 1..MaxFeeds :
        []<>( \/ SchedFeed(k).id \notin {f.id : f \in feeds}
              \/ pc[1] = "mark" /\ feed[1].id = SchedFeed(k).id )

(* C10, reached: on a store of several feeds, a feed that was fetched      *)
(* before is selected again while no cycle has stored a post yet.          *)
C10_Witness ==
    /\ Cardinality(feeds) >= 2
    /\ pc[1] = "mark"
    /\ feed[1].last_fetched_at # NULL
    /\ posts = {}

(* C11: select-and-mark is one step with respect to another agg process.   *)
(* On a store of at least two feeds, two processes are never both between  *)
(* their selection and their mark with the same feed selected, and never   *)
(* both fetching the same feed.                                            *)
C11_SelectAndMarkAtomic ==
    \A a, b \in Procs :
        ( /\ a # b
          /\ Cardinality(feeds) >= 2
          /\ feed[a].id = feed[b].id )
        => /\ ~ (pc[a] = "mark" /\ pc[b] = "mark")
           /\ ~ (pc[a] = "fetch" /\ pc[b] = "fetch")

PostUrls(ps) == {p.url : p \in ps}

(* Every insert the cycle under way has tried went through or met a        *)
(* duplicate URL.                                                          *)
OnlyDuplicatesRefused ==
    \A i \in DOMAIN cyc.tried : cyc.tried[i].err \in {Nil, ErrUnique}

(* C12: when a cycle whose fetch succeeded returns, its inserts having     *)
(* failed on duplicate URLs only and its feed still being stored, the URLs *)
(* of the posts are those stored when the cycle began and the links of the *)
(* document; the posts stored before are still stored; as many posts are   *)
(* new as the document has links that were not stored; and the feed's      *)
(* last_fetched_at is later than it was when the feed was selected.        *)
C12_CycleEffect ==
    [][ ( /\ Scraped(1)
          /\ pc[1] = "ingest"
          /\ pc'[1] = "idle"
          /\ OnlyDuplicatesRefused
          /\ \E f \in feeds : f.id = feed[1].id )
        => LET links == {rss[1][i].Link : i \in DOMAIN rss[1]}
               before == PostUrls(cyc.before)
           IN  /\ PostUrls(posts') = before \cup links
               /\ cyc.before \subseteq posts'
               /\ Cardinality(posts') - Cardinality(cyc.before)
                     = Cardinality(links \ before)
               /\ \A f \in feeds' : f.id = feed[1].id
                     => f.last_fetched_at > feed[1].last_fetched_at
      ]_vars

(* C12, reached: a cycle on a document of three items, one of them with a  *)
(* link stored before the cycle, has returned with two posts more.         *)
C12_Witness ==
    /\ pc[1] = "idle"
    /\ res = Event(1, Nil, <<>>)
    /\ Len(cyc.tried) = 3
    /\ Cardinality({i \in 1..3 : cyc.tried[i].link \in PostUrls(cyc.before)}) = 1
    /\ Cardinality({i \in 1..3 : cyc.tried[i].err = ErrUnique}) = 1
    /\ Cardinality(posts) = Cardinality(cyc.before) + 2

(* The calls of register made under the name `name`, by their position. *)
RegisteredAs(name) == {i \in DOMAIN regs : regs[i].name = name}

(* C13: run dispatches by name.  A command whose name was never registered *)
(* fails with "unknown command: <name>" and changes nothing; a command     *)
(* whose name was registered is one call of the handler of the last        *)
(* registration under that name, and its error and output are the          *)
(* handler's.                                                              *)
C13_RunDispatchesByName ==
    [][ LET cmd == res'.cmd
            at == RegisteredAs(cmd.name)
        IN  IF at = {}
            THEN /\ res'.err = <<"unknown command: %s", cmd.name>>
                 /\ res'.out = <<>>
                 /\ ~ res'.lookup /\ ~ res'.body
                 /\ UNCHANGED <<users, feeds, follows, posts, CurrentUserName,
                                nextId, now, pc, feed, rss, idx>>
            ELSE LET last == CHOOSE i \in at : \A j \in at : j <= i
                 IN  Invoke(regs[last].f, 1, cmd)
      ]_vars

(* C13, reached: "login" was registered twice, last for handlerRegister,   *)
(* and `login alice` has created alice.                                    *)
C13_Witness ==
    /\ regs = << [name |-> "login", f |-> "handlerLogin"],
                 [name |-> "login", f |-> "handlerRegister"] >>
    /\ res.cmd = [name |-> "login", args |-> <<"alice">>]
    /\ res.out = <<"user %s created", "alice">>
    /\ users # {}

(* C14: after an addfeed <name> <url> that succeeded for the current user  *)
(* u, a feed with that URL is stored with u as its user, the follow of     *)
(* that feed by u is stored, and the feed is in the list `following`       *)
(* gives u.                                                                *)
C14_AddFeedFollows ==
    [][ ( Ran("addfeed") /\ res'.err = Nil )
        => \E u \in users', f \in feeds' :
              /\ u.name = CurrentUserName
              /\ f.url = res'.cmd.args[2]
              /\ f.name = res'.cmd.args[1]
              /\ f.user_id = u.id
              /\ \E ff \in follows' : ff.user_id = u.id /\ ff.feed_id = f.id
              /\ f.id \in {ff.feed_id : ff \in GetFeedFollowsForUser(u.id)'}
              /\ f \notin feeds
      ]_vars

(* C14, reached: bob has added a feed while alice has one, and follows his *)
(* own and not hers.                                                       *)
C14_Witness ==
    /\ res.cmd.name = "addfeed"
    /\ res.err = Nil
    /\ CurrentUserName = "bob"
    /\ Cardinality(feeds) = 2
    /\ \E u \in users :
          /\ u.name = "bob"
          /\ {ff.feed_id : ff \in {x \in follows : x.user_id = u.id}}
                = {f.id : f \in {g \in feeds : g.url = res.cmd.args[2]}}

(* C15: a user follows a feed at most once.  No two stored follows have    *)
(* the same user and the same feed; a follow of a feed the current user    *)
(* follows already fails with "<user> already follows <feed>" and leaves   *)
(* the follows as they are.                                                *)
C15_FollowAtMostOnce ==
    [][ /\ \A x, y \in follows' :
              (x.user_id = y.user_id /\ x.feed_id = y.feed_id) => x = y
        /\ ( /\ Ran("follow")
             /\ Len(res'.cmd.args) = 1
             /\ \E u \in users, f \in feeds, ff \in follows :
                   /\ u.name = CurrentUserName
                   /\ f.url = res'.cmd.args[1]
                   /\ ff.user_id = u.id
                   /\ ff.feed_id = f.id )
           => /\ res'.err = <<"%s already follows %s", CurrentUserName,
                               (CHOOSE f \in feeds : f.url = res'.cmd.args[1]).name>>
              /\ follows' = follows
      ]_vars

(* C15, reached: alice, who follows the feed since she added it, was       *)
(* refused a follow of it, while bob follows it too.                       *)
C15_Witness ==
    /\ res.cmd.name = "follow"
    /\ res.err = <<"%s already follows %s", "alice", "blog">>
    /\ \E u, v \in users, f \in feeds :
          /\ u.name = "alice" /\ f.user_id = u.id /\ v.name = "bob"
          /\ f.url = res.cmd.args[1]
          /\ \E x, y \in follows :
                /\ x.user_id = u.id /\ x.feed_id = f.id
                /\ y.user_id = v.id /\ y.feed_id = f.id

(* The limit a browse with the arguments args asks for; 0 when the         *)
(* argument is not a positive integer.                                     *)
LimitAsked(args) ==
    CASE args = <<>> -> 2
      [] args = <<"1">> -> 1
      [] args = <<"3">> -> 3
      [] OTHER -> 0

(* C16: browse by the current user u gives at most `limit` posts, 2 when   *)
(* no limit is given; each is a stored post of a feed u follows, none      *)
(* comes twice, and of two posts with a published_at the later one comes   *)
(* first.  With a limit that is not a positive integer browse fails and    *)
(* gives no post.                                                          *)
C16_Browse ==
    [][ ( Ran("browse") /\ CurrentUserName \in UserNames )
        => LET u == CHOOSE v \in users : v.name = CurrentUserName
               limit == LimitAsked(res'.cmd.args)
               q == res'.out
           IN  IF limit = 0
               THEN /\ res'.err = <<"browse limit must be a positive integer">>
                    /\ q = <<>>
               ELSE /\ res'.err = Nil
                    /\ Len(q) <= limit
                    /\ \A i \in DOMAIN q :
                          /\ q[i] \in posts
                          /\ \E ff \in follows :
                                ff.user_id = u.id /\ ff.feed_id = q[i].feed_id
                    /\ \A i, j \in DOMAIN q : i < j =>
                          /\ q[i] # q[j]
                          /\ (q[i].published_at.Valid /\ q[j].published_at.Valid)
                             => q[i].published_at.Time >= q[j].published_at.Time
      ]_vars

(* C16, reached: alice follows both feeds, three posts are stored, one of  *)
(* them under bob's feed, and a browse without a limit gave her two, the   *)
(* later one first.                                                        *)
C16_Witness ==
    /\ res.cmd = [name |-> "browse", args |-> <<>>]
    /\ CurrentUserName = "alice"
    /\ Cardinality(posts) = 3
    /\ \E p \in posts : p.feed_id = 4
    /\ Len(res.out) = 2
    /\ res.out[1].published_at.Valid /\ res.out[2].published_at.Valid
    /\ res.out[1].published_at.Time > res.out[2].published_at.Time

(* The command line has the wrong number of arguments for its command, or  *)
(* an argument of the wrong type.                                          *)
UsageError(cmd) ==
    CASE cmd.name \in {"register", "login"} -> Len(cmd.args) = 0
      [] cmd.name = "addfeed" -> Len(cmd.args) < 2
      [] cmd.name \in {"follow", "unfollow"} -> Len(cmd.args) # 1
      [] cmd.name \in {"feeds", "following"} -> Len(cmd.args) # 0
      [] cmd.name = "browse" -> Len(cmd.args) >= 1 /\ LimitAsked(cmd.args) = 0
      [] cmd.name = "agg" -> Len(cmd.args) # 1 \/ cmd.args[1] \notin {"1s", "0s"}
      [] OTHER -> FALSE

(* C17: a command given a wrong number of arguments, or an argument of the *)
(* wrong type, fails and leaves the users, the feeds, the follows, the     *)
(* posts and the current user name as they were; agg so given starts no    *)
(* cycle.                                                                  *)
C17_UsageErrorChangesNothing ==
    [][ UsageError(res'.cmd)
        => /\ res'.err # Nil
           /\ UNCHANGED <<users, feeds, follows, posts, CurrentUserName>>
           /\ res'.cmd.name = "agg" => UNCHANGED <<pc, feed, rss, idx>>
      ]_vars

(* C17, reached: agg was given an interval that does not parse; it failed, *)
(* the process is off and the posts are there.                             *)
C17_Witness ==
    /\ res.cmd = [name |-> "agg", args |-> <<"soon">>]
    /\ res.err = <<"time: invalid duration">>
    /\ pc[1] = "off"
    /\ posts # {}
    /\ Cardinality(follows) = 3

(* C18: every stored post references a stored feed, and every stored       *)
(* follow a stored user and a stored feed (and every feed a stored user),  *)
(* whatever the order of register, addfeed, follow, unfollow, reset and    *)
(* the steps of the cycles.                                                *)
C18_References ==
    /\ \A p \in posts : \E f \in feeds : f.id = p.feed_id
    /\ \A ff \in follows :
          /\ \E u \in users : u.id = ff.user_id
          /\ \E f \in feeds : f.id = ff.feed_id
    /\ \A f \in feeds : \E u \in users : u.id = f.user_id

(* C18, reached: a reset has run between the selection of a feed and the   *)
(* insert of its item, the insert was refused, and the store, filled       *)
(* again since, holds a follow.                                            *)
C18_Witness ==
    /\ res = Event(1, ErrForeignKey, <<"error creating post (url=%s): %v", "l1">>)
    /\ pc[1] = "ingest"
    /\ feed[1].id \notin {f.id : f \in feeds}
    /\ follows # {}
    /\ posts = {}

(* C19: with the feeds fixed, two or more, and one agg process, between    *)
(* two selections of one feed every other feed is selected; no feed is     *)
(* selected by two cycles in a row, and the feed of a fetch that has just  *)
(* failed is not the one the next cycle will select.                       *)
C19_Rotation ==
    [][ Cardinality(feeds) >= 2
        => /\ \A i, j \in DOMAIN selLog' :
                 (i < j /\ selLog'[i] = selLog'[j])
                 => \A f \in feeds :
                       f.id # selLog'[i]
                       => \E k \in (i + 1)..(j - 1) : selLog'[k] = f.id
           /\ ( Scraped(1) /\ pc[1] = "fetch" /\ res'.err # Nil )
              => \A f \in GetNextFeedToFetch' : f.id # feed[1].id
      ]_vars

(* C19, reached: of two feeds the first was selected, then the second,     *)
(* then the first again, whose fetch has just failed.                      *)
C19_Witness ==
    /\ Cardinality(feeds) = 2
    /\ Len(selLog) = 3
    /\ selLog[1] = selLog[3]
    /\ selLog[2] # selLog[1]
    /\ pc[1] = "idle"
    /\ res.err \in FetchErrors

(* C20: in a cycle whose fetch succeeded every item of the document gets   *)
(* one insert attempt, in the order of the document.  An insert refused    *)
(* for another reason than a duplicate URL is logged, stores nothing and   *)
(* moves the loop to the next item; the cycle returns only after the last  *)
(* item was tried, and without an error.                                   *)
C20_EachItemTriedOnce ==
    [][ /\ pc'[1] = "ingest"
           => /\ Len(cyc'.tried) = idx'[1] - 1
              /\ \A i \in DOMAIN cyc'.tried : cyc'.tried[i].link = rss'[1][i].Link
        /\ ( /\ Scraped(1)
             /\ pc[1] = "ingest"
             /\ idx[1] <= Len(rss[1])
             /\ res'.err \notin {Nil, ErrUnique} )
           => /\ res'.out = <<"error creating post (url=%s): %v", rss[1][idx[1]].Link>>
              /\ posts' = posts
              /\ pc'[1] = "ingest"
              /\ rss'[1] = rss[1]
              /\ idx'[1] = idx[1] + 1
        /\ ( Scraped(1) /\ pc[1] = "ingest" /\ pc'[1] = "idle" )
           => /\ res'.err = Nil
              /\ Len(cyc.tried) = Len(rss[1])
              /\ \A i \in DOMAIN rss[1] : cyc.tried[i].link = rss[1][i].Link
      ]_vars

(* C20, reached: the feed was deleted after the first of three items was   *)
(* stored; the second and the third were both tried and refused, and the   *)
(* cycle has returned without an error.                                    *)
C20_Witness ==
    /\ pc[1] = "idle"
    /\ res = Event(1, Nil, <<>>)
    /\ Len(cyc.tried) = 3
    /\ cyc.tried[1].err = Nil
    /\ cyc.tried[2].err = ErrForeignKey
    /\ cyc.tried[3].err = ErrForeignKey

(* Publication dates that are empty or in none of the accepted layouts. *)
Undated == {"", "yesterday"}

(* C21: missing data never blocks an item.  The insert of an item leaves   *)
(* the cycle in its loop; an item whose link is free and whose feed is     *)
(* stored is stored, with description absent when the item's description   *)
(* is empty, published-at absent when the date is empty or in no accepted  *)
(* layout, and published-at present with the stated time otherwise.        *)
C21_MissingDataIsStoredAbsent ==
    [][ ( /\ Scraped(1)
          /\ pc[1] = "ingest"
          /\ idx[1] <= Len(rss[1]) )
        => LET item == rss[1][idx[1]]
           IN  /\ pc'[1] = "ingest"
               /\ idx'[1] = idx[1] + 1
               /\ ( /\ item.Link \notin PostUrls(posts)
                    /\ \E f \in feeds : f.id = feed[1].id )
                  => /\ res'.err = Nil
                     /\ \E p \in posts' \ posts :
                          /\ posts' = posts \cup {p}
                          /\ p.url = item.Link
                          /\ p.title = item.Title
                          /\ p.description =
                               IF item.Description = ""
                               THEN [String |-> "", Valid |-> FALSE]
                               ELSE [String |-> item.Description, Valid |-> TRUE]
                          /\ item.PubDate \in Undated
                             => ~ p.published_at.Valid
                          /\ item.PubDate \notin Undated
                             => /\ p.published_at.Valid
                                /\ p.published_at.Time = parsePubDate(item.PubDate).t
      ]_vars

(* C21, reached: the item dated "yesterday" with an empty description was  *)
(* just stored with both absent, next to a post that carries a date, and   *)
(* the cycle is still in its loop.                                         *)
C21_Witness ==
    /\ pc[1] = "ingest"
    /\ res = Event(1, Nil, <<"item", "l2">>)
    /\ \E p \in posts : /\ p.url = "l2"
                        /\ ~ p.description.Valid
                        /\ ~ p.published_at.Valid
    /\ \E p \in posts : p.published_at.Valid

(* No two stored feeds carry the same URL. *)
UniqueFeedUrls == \A f, g \in feeds : f.url = g.url => f = g

(* C22: feed URLs are unique in every reachable state.  An addfeed by a    *)
(* stored current user with a URL some stored feed carries, whoever added  *)
(* it, fails with "feed url already exists", stores no feed and stores no  *)
(* follow.                                                                 *)
C22_FeedUrlsUnique ==
    /\ [] UniqueFeedUrls
    /\ [][ ( /\ Ran("addfeed")
             /\ Len(res'.cmd.args) >= 2
             /\ CurrentUserName \in UserNames
             /\ \E f \in feeds : f.url = res'.cmd.args[2] )
           => /\ res'.err = <<"feed url already exists: %s", res'.cmd.args[2]>>
              /\ res'.out = <<>>
              /\ feeds' = feeds
              /\ follows' = follows
              /\ UNCHANGED <<users, posts, CurrentUserName>>
         ]_vars

(* C22, reached: the current user was refused a URL that another user's    *)
(* feed carries, and follows no feed.                                      *)
C22_Witness ==
    /\ res.cmd.name = "addfeed"
    /\ res.err = <<"feed url already exists: %s", "u1">>
    /\ \E u \in users, f \in feeds :
          /\ u.name = CurrentUserName
          /\ f.url = "u1"
          /\ f.user_id # u.id
          /\ ~ \E ff \in follows : ff.user_id = u.id

(* The step just taken was `unfollow <url>` by a stored current user, and  *)
(* the one before it was `follow <url>`.                                   *)
UnfollowAfterFollow ==
    /\ Ran("unfollow")
    /\ Len(res'.cmd.args) = 1
    /\ CurrentUserName \in UserNames
    /\ res.cmd = Cmd("follow", res'.cmd.args)
    /\ \E f \in feeds : f.url = res'.cmd.args[1]

(* C23, as stated: any `follow <url>` with `unfollow <url>` right after it *)
(* restores the follows stored before the follow.                          *)
C23_FollowThenUnfollowRestores ==
    [][ UnfollowAfterFollow => follows' = held ]_vars

(* C23, amended: `unfollow <url>` by the stored current user u removes the *)
(* follows of the feed with that URL by u and nothing else: feeds, posts,  *)
(* users, the current user and the follows of other users or other feeds   *)
(* stay; with a URL of no stored feed it fails and changes nothing; and a  *)
(* `follow <url>` that succeeded with `unfollow <url>` right after it      *)
(* restores the follows stored before the follow.                          *)
C23_UnfollowRemovesOneFollow ==
    [][ ( /\ Ran("unfollow")
          /\ Len(res'.cmd.args) = 1
          /\ CurrentUserName \in UserNames )
        => LET url == res'.cmd.args[1]
               u == CHOOSE x \in users : x.name = CurrentUserName
           IN  /\ UNCHANGED <<users, feeds, posts, CurrentUserName>>
               /\ IF \E f \in feeds : f.url = url
                  THEN LET f == CHOOSE x \in feeds : x.url = url
                       IN  /\ res'.err = Nil
                           /\ follows' = {ff \in follows :
                                            ~ (ff.user_id = u.id /\ ff.feed_id = f.id)}
                           /\ ( UnfollowAfterFollow /\ res.err = Nil )
                              => follows' = held
                  ELSE /\ res'.err # Nil
                       /\ res'.out = <<>>
                       /\ follows' = follows
      ]_vars

(* C23, reached: bob followed alice's feed and unfollowed it again; the    *)
(* follows are those stored before, alice's among them.                    *)
C23_Witness ==
    /\ res.cmd = Cmd("unfollow", <<"u1">>)
    /\ res.err = Nil
    /\ CurrentUserName = "bob"
    /\ held = follows
    /\ \E ff \in follows : ff.user_id = 1 /\ ff.feed_id = 3
    /\ ~ \E ff \in follows : ff.user_id = 2

(* The step just taken was the receipt of a tick by process a. *)
Ticked(a) == res'.cmd = [name |-> "tick", args |-> <<a>>]

(* C24: the first cycle starts when agg enters its loop, with no tick      *)
(* before it; a later cycle starts only from idle, that is after the cycle *)
(* before it has returned, and on the receipt of a tick; a tick is         *)
(* received only when idle, and a cycle under way ends idle, so the        *)
(* process alternates idle, fetching, idle.                                *)
C24_CyclesDoNotOverlap ==
    [][ /\ ( pc[1] = "off" /\ pc'[1] # "off" )
           => /\ Ran("agg")
              /\ pc'[1] = "scrape"
        /\ ( pc[1] # "scrape" /\ pc'[1] = "scrape" )
           => \/ pc[1] = "off" /\ Ran("agg")
              \/ pc[1] = "idle" /\ Ticked(1)
        /\ Ticked(1) => pc[1] = "idle" /\ pc'[1] = "scrape"
        /\ ( pc[1] \in Fetching /\ pc'[1] # pc[1] )
           => /\ Scraped(1)
              /\ pc'[1] \in (Fetching \ {"scrape"}) \cup {"idle"}
        /\ ( pc[1] = "idle" /\ pc'[1] # "idle" ) => Ticked(1)
      ]_vars

(* C24, reached: a cycle has stored posts and returned, a tick was         *)
(* received, and the next cycle has started.                               *)
C24_Witness ==
    /\ pc[1] = "scrape"
    /\ res.cmd = [name |-> "tick", args |-> <<1>>]
    /\ posts # {}

(* C25: a cycle touches one feed.  A step of scrapeFeeds changes no user,  *)
(* no follow and not the current user; it adds or removes no feed, and the *)
(* one change it makes to a feed is the last_fetched_at of the feed it     *)
(* selected, made by its mark; the posts it stores carry the id of that    *)
(* feed, and the feed selected stays the same until the cycle returns.     *)
C25_CycleTouchesOneFeed ==
    [][ Scraped(1)
        => /\ UNCHANGED <<users, follows, CurrentUserName>>
           /\ {f.id : f \in feeds'} = {f.id : f \in feeds}
           /\ \A g \in feeds : g.id # feed[1].id => g \in feeds'
           /\ \A g \in feeds, h \in feeds' :
                 g.id = h.id => h = [g EXCEPT !.last_fetched_at = h.last_fetched_at]
           /\ feeds' # feeds => pc[1] = "mark"
           /\ pc[1] = "mark"
              => \A g \in feeds, h \in feeds' :
                    (g.id = feed[1].id /\ h.id = g.id)
                       => h.last_fetched_at > g.last_fetched_at
           /\ posts \subseteq posts'
           /\ \A p \in posts' \ posts : p.feed_id = feed[1].id
           /\ ( pc[1] \in Fetching \ {"scrape"} /\ pc'[1] \in Fetching )
              => feed'[1] = feed[1]
      ]_vars

(* C25, reached: of three feeds the cycle that just returned marked one    *)
(* and stored posts under it; the other two were never fetched.            *)
C25_Witness ==
    /\ pc[1] = "idle"
    /\ res = Event(1, Nil, <<>>)
    /\ Cardinality(feeds) = 3
    /\ Cardinality(NeverFetched) = 2
    /\ posts # {}
    /\ \E f \in feeds \ NeverFetched : \A p \in posts : p.feed_id = f.id

(* C26: the current-user name changes only in a register or a login that   *)
(* succeeded, to the name given.  Any other step (reset, users, feeds,     *)
(* addfeed, follow, following, unfollow, browse, agg and its cycles, a     *)
(* command that failed) leaves it as it is; after a reset it names a user  *)
(* that is stored no longer.                                               *)
C26_CurrentUserSetByRegisterAndLogin ==
    [][ /\ CurrentUserName' # CurrentUserName
           => /\ Ran("register") \/ Ran("login")
              /\ res'.err = Nil
              /\ Len(res'.cmd.args) = 1
              /\ CurrentUserName' = res'.cmd.args[1]
              /\ CurrentUserName' \in UserNames'
        /\ res'.err # Nil => CurrentUserName' = CurrentUserName
        /\ Ran("reset")
           => /\ CurrentUserName' = CurrentUserName
              /\ CurrentUserName' \notin UserNames'
      ]_vars

(* C26, reached: alice was the current user when reset ran; an addfeed     *)
(* after it failed as no user carries her name, and her name is still the  *)
(* current one.                                                            *)
C26_Witness ==
    /\ users = {}
    /\ CurrentUserName = "alice"
    /\ res.cmd.name = "addfeed"
    /\ res.err # Nil
    /\ res.lookup

====
